---- MODULE Spec2Model ----
(***************************************************************************)
(* A model of the routee-compass road-network core: the TomTom graph       *)
(* builder (direction splitting, largest strongly connected component),    *)
(* the RoadNetwork implementations (energy derivation, link updates,       *)
(* weighted shortest path with route metadata) and the BasicRouter.        *)
(*                                                                         *)
(* Quantities that are floats in the program (meters, minutes, kph, grade, *)
(* energy) are integers here; the unit conversions applied before the      *)
(* energy model is called are part of the opaque predictor.                *)
(***************************************************************************)
EXTENDS Integers, Sequences, FiniteSets, TLC

VARIABLES
    impl,       \* which RoadNetwork class the network object is an instance of
    G,          \* the network's graph (self.G): nodes, coordinates, edges
    response,   \* outcome of the last call made on the network
    updates,    \* number of update calls made so far
    queries,    \* the shortest_path calls made so far: request, graph, outcome
    segs,       \* builder: the input segment table
    links,      \* builder: the links emitted so far
    bpc,        \* builder: position of the builder run
    restr,      \* builder: the restriction tables, one per restriction kind
    cpc,        \* concurrent run: position of the updating thread
    cidx,       \* concurrent run: index of the next edge the update loop visits
    clinks,     \* concurrent run: the links the update was called with
    spc,        \* concurrent run: position of the searching thread
    sreq,       \* concurrent run: the search request
    sst,        \* concurrent run: the search's local state
    reads,      \* concurrent run: the edge attribute values the search has read
    shop,       \* concurrent run: index of the next hop the metadata loop visits
    G0,         \* concurrent run: the graph as it was when the update was called
    stream,     \* historic speeds: position and locals of HistoricSpeedsTomTomStream.update
    data_streams, \* the data_streams list of each road-network class
    observers,  \* the callbacks bound to each data stream, in binding order
    compass_map \* the CompassMap object: its roads and its routee model attributes

netVars == <<impl, G, response, updates, queries>>
buildVars == <<segs, links, bpc, restr>>
concVars == <<cpc, cidx, clinks, spc, sreq, sst, reads, shop, G0>>
vars == <<impl, G, response, updates, segs, restr, queries, links, bpc, cpc, cidx, clinks, spc, sreq, sst, reads, shop, G0,
         stream, data_streams, observers, compass_map>>

(***************************************************************************)
(* Bounds of the model.                                                    *)
(***************************************************************************)
NumJunctions == 3
MaxUpdates == 1
MaxLinks == 2

(***************************************************************************)
(* Generic helpers.                                                        *)
(***************************************************************************)
Range(s) == {s[i] : i \in DOMAIN s}

RECURSIVE SumSeq(_)
SumSeq(s) == IF s = <<>> THEN 0 ELSE Head(s) + SumSeq(Tail(s))

MinOf(S) == CHOOSE x \in S : \A y \in S : x <= y

Reverse(s) == [i \in 1..Len(s) |-> s[Len(s) + 1 - i]]

\* dict[name] = val on a dict modelled as a function
SetItem(d, name, val) == [n \in (DOMAIN d) \cup {name} |-> IF n = name THEN val ELSE d[n]]

(***************************************************************************)
(* scripts/get_tomtom_road_network.py: build_graph                          *)
(* A row of the input table is                                             *)
(*   [id, f_jnctid, t_jnctid, oneway, meters, minutes, kph, mean_grad,     *)
(*    geom]  with geom a sequence of <<lon, lat>> coordinates.             *)
(***************************************************************************)
EdgeFT(r) ==
    [u |-> r.f_jnctid, v |-> r.t_jnctid, key |-> r.id,
     attrs |-> [meters |-> r.meters, minutes |-> r.minutes, kph |-> r.kph, grade |-> r.mean_grad],
     geom |-> r.geom]

EdgeTF(r) ==
    [u |-> r.t_jnctid, v |-> r.f_jnctid, key |-> -r.id,
     attrs |-> [meters |-> r.meters, minutes |-> r.minutes, kph |-> r.kph, grade |-> -r.mean_grad],
     geom |-> r.geom]

IsOnewayFT(r) == r.oneway = "FT"
IsOnewayTF(r) == r.oneway = "TF"
IsTwoway(r) == ~(r.oneway = "FT") /\ ~(r.oneway = "TF")

\* G.add_edges_from on a MultiDiGraph: an edge whose (u, v, key) is already
\* present has its data updated in place, any other is appended.
RECURSIVE add_edges_from(_, _)
add_edges_from(es, new) ==
    IF new = <<>> THEN es
    ELSE LET e == Head(new)
             hit == {i \in DOMAIN es : es[i].u = e.u /\ es[i].v = e.v /\ es[i].key = e.key}
         IN  add_edges_from(
                 IF hit = {} THEN Append(es, e)
                 ELSE [i \in DOMAIN es |-> IF i \in hit THEN e ELSE es[i]],
                 Tail(new))

\* nodes are created in the order the edges first mention them
RECURSIVE NodeOrder(_, _)
NodeOrder(es, acc) ==
    IF es = <<>> THEN acc
    ELSE LET e == Head(es)
             a1 == IF e.u \in Range(acc) THEN acc ELSE Append(acc, e.u)
             a2 == IF e.v \in Range(a1) THEN a1 ELSE Append(a1, e.v)
         IN  NodeOrder(Tail(es), a2)

\* {nid: c for nid, c in zip(...)}: the last row naming nid wins;
\* the t_ dictionaries are applied after the f_ dictionaries
NodeCoord(gdf, n, axis) ==
    LET ts == {i \in DOMAIN gdf : gdf[i].t_jnctid = n}
        fs == {i \in DOMAIN gdf : gdf[i].f_jnctid = n}
        last(S) == CHOOSE i \in S : \A j \in S : j <= i
    IN  IF ts # {} THEN gdf[last(ts)].geom[Len(gdf[last(ts)].geom)][axis]
        ELSE gdf[last(fs)].geom[1][axis]

\* the graph before component extraction (lines 106-197)
RawGraph(gdf) ==
    LET twoway == SelectSeq(gdf, IsTwoway)
        oneway_ft == SelectSeq(gdf, IsOnewayFT)
        oneway_tf == SelectSeq(gdf, IsOnewayTF)
        es == add_edges_from(<<>>,
                 [i \in DOMAIN twoway |-> EdgeTF(twoway[i])]
                 \o [i \in DOMAIN twoway |-> EdgeFT(twoway[i])]
                 \o [i \in DOMAIN oneway_ft |-> EdgeFT(oneway_ft[i])]
                 \o [i \in DOMAIN oneway_tf |-> EdgeTF(oneway_tf[i])])
        ns == NodeOrder(es, <<>>)
    IN  [nodes |-> ns,
         lon |-> [n \in Range(ns) |-> NodeCoord(gdf, n, 1)],
         lat |-> [n \in Range(ns) |-> NodeCoord(gdf, n, 2)],
         edges |-> es,
         compass_network_type |-> "none"]

Successors(es, S) == S \cup {es[i].v : i \in {j \in DOMAIN es : es[j].u \in S}}

RECURSIVE ReachFrom(_, _)
ReachFrom(es, S) ==
    LET T == Successors(es, S) IN IF T = S THEN S ELSE ReachFrom(es, T)

WeakNeighbours(es, S) ==
    S \cup {es[i].v : i \in {j \in DOMAIN es : es[j].u \in S}}
      \cup {es[i].u : i \in {j \in DOMAIN es : es[j].v \in S}}

RECURSIVE WeakReachFrom(_, _)
WeakReachFrom(es, S) ==
    LET T == WeakNeighbours(es, S) IN IF T = S THEN S ELSE WeakReachFrom(es, T)

weakly_connected_components(g) ==
    {WeakReachFrom(g.edges, {n}) : n \in Range(g.nodes)}

\* nx.strongly_connected_components(G)
strongly_connected_components(g) ==
    LET R == [n \in Range(g.nodes) |-> ReachFrom(g.edges, {n})]
    IN  {{m \in Range(g.nodes) : m \in R[n] /\ n \in R[m]} : n \in Range(g.nodes)}

\* max(components, key=len): the first component of maximal size in the
\* library's generation order, which the builder does not control; every
\* component of maximal size is a possible outcome.
LargestComponents(comps) ==
    {c \in comps : \A d \in comps : Cardinality(d) <= Cardinality(c)}

\* nx.MultiDiGraph(G.subgraph(comp))
subgraph(g, comp) ==
    LET InComp(n) == n \in comp
        EdgeInComp(e) == e.u \in comp /\ e.v \in comp
    IN  [nodes |-> SelectSeq(g.nodes, InComp),
         lon |-> [n \in comp |-> g.lon[n]],
         lat |-> [n \in comp |-> g.lat[n]],
         edges |-> SelectSeq(g.edges, EdgeInComp),
         compass_network_type |-> g.compass_network_type]

\* build_graph lines 199-207, for the component comp that max() returned
build_graph(gdf, comp) ==
    [subgraph(RawGraph(gdf), comp) EXCEPT !.compass_network_type = "tomtom"]

build_graph_components_default(gdf) ==
    LET comps == strongly_connected_components(RawGraph(gdf))
    IN  IF comps = {} THEN {{}} ELSE LargestComponents(comps)

\* max(nx.strongly_connected_components(G), key=len): the components max()
\* can return; none for a graph without vertices, where max() raises
\* ValueError
build_graph_components(gdf) ==
    LargestComponents(strongly_connected_components(RawGraph(gdf)))

\* graph_to_file: the link geometry is removed before the graph is pickled
graph_to_file(g) ==
    [g EXCEPT !.edges = [i \in DOMAIN g.edges |->
        [u |-> g.edges[i].u, v |-> g.edges[i].v, key |-> g.edges[i].key, attrs |-> g.edges[i].attrs]]]

(***************************************************************************)
(* compass/utils/routee_utils.py and the RoadNetwork classes               *)
(***************************************************************************)
\* the keys of RouteeModelCollection's default model_paths
RouteeKeys == {"Gasoline", "Electric"}

\* model.predict(df): the powertrain library's estimator, an opaque function
\* of (speed, distance, grade) per model key.  Two linear models stand for
\* it; both can predict negative energy on a downhill or slow link.
predict(k, speed, distance, grade) ==
    IF k = "Gasoline" THEN distance * (2 + grade) + speed
    ELSE distance * (1 + grade)

\* pandas Series.clip(0)
clip0(x) == IF x < 0 THEN 0 ELSE x

Impls == {"TomTomNetworkX", "OSMNetworkX", "TomTomRoadNetwork", "OSMRoadNetwork"}

TomTomImpls == {"TomTomNetworkX", "TomTomRoadNetwork"}

\* the class attribute network_weights of each implementation
network_weights(i) ==
    IF i \in TomTomImpls
    THEN [DISTANCE |-> "meters", TIME |-> "minutes", ENERGY |-> "energy"]
    ELSE [DISTANCE |-> "miles", TIME |-> "travel_time", ENERGY |-> "energy"]

PathWeights == {"TIME", "DISTANCE", "ENERGY"}

\* the edge attribute each _compute_energy reads the speed from
SpeedAttr(i) ==
    CASE i \in TomTomImpls -> "kph"
      [] i = "OSMNetworkX" -> "speed_mph"
      [] OTHER -> "gpsspeed"

DistanceAttr(i) == IF i \in TomTomImpls THEN "meters" ELSE "miles"

EnergyAttr(k) == "energy_" \o k

\* nx.set_edge_attributes(G, name="energy_<k>", values=...) for every model
\* key, each value being the prediction from the edge's own attributes,
\* clipped at 0 when clip is TRUE
RECURSIVE SetEnergyAttrs(_, _, _, _, _)
SetEnergyAttrs(a, keys, sp, di, clip) ==
    IF keys = {} THEN a
    ELSE LET k == CHOOSE x \in keys : TRUE
             e == predict(k, a[sp], a[di], a["grade"])
         IN  SetEnergyAttrs(
                 SetItem(a, EnergyAttr(k), IF clip THEN clip0(e) ELSE e),
                 keys \ {k}, sp, di, clip)

ComputeEnergy(g, sp, di, clip) ==
    [g EXCEPT !.edges = [i \in DOMAIN g.edges |->
        [g.edges[i] EXCEPT !.attrs = SetEnergyAttrs(g.edges[i].attrs, RouteeKeys, sp, di, clip)]]]

\* _compute_energy lines 75-93: the edges that are rows of the frame df
\* handed to model.predict, one row per edge that has kph, meters and grade
compute_energy_rows(g) == DOMAIN g.edges

\* TomTomNetworkX._compute_energy: model.predict(df).clip(0)
TomTomNetworkX_compute_energy(g) == ComputeEnergy(g, "kph", "meters", TRUE)

\* TomTomRoadNetwork._compute_energy: model.predict(df), not clipped
TomTomRoadNetwork_compute_energy(g) == ComputeEnergy(g, "kph", "meters", FALSE)

\* OSMNetworkX._compute_energy: model.predict(df), not clipped
OSMNetworkX_compute_energy(g) == ComputeEnergy(g, "speed_mph", "miles", FALSE)

\* OSMRoadNetwork._compute_energy: model.predict(df), not clipped
OSMRoadNetwork_compute_energy(g) == ComputeEnergy(g, "gpsspeed", "miles", FALSE)

\* __init__ of each class: the graph is read from the pickle and, except in
\* TomTomRoadNetwork, energy is computed over it
Construct(i, g) ==
    CASE i = "TomTomNetworkX" -> TomTomNetworkX_compute_energy(g)
      [] i = "OSMNetworkX" -> OSMNetworkX_compute_energy(g)
      [] i = "OSMRoadNetwork" -> OSMRoadNetwork_compute_energy(g)
      [] OTHER -> g

\* routee_model_keys
routee_model_keys == RouteeKeys

(***************************************************************************)
(* TomTomNetworkX.update_links                                             *)
(* A link is [link_id, attributes] with attributes = [kph, minutes].       *)
(***************************************************************************)
\* link_df[link_df.segment_id == k]
SegmentRows(ls, k) == {j \in DOMAIN ls : ls[j].link_id = k}

UpdateEdge_first_match(e, ls) ==
    LET segment == SegmentRows(ls, e.key)
    IN  IF Cardinality(segment) < 1 THEN e
        ELSE LET l == ls[CHOOSE j \in segment : \A k \in segment : j <= k]
             IN  [e EXCEPT !.attrs =
                     SetItem(SetItem(e.attrs, "kph", l.attributes.kph), "minutes", l.attributes.minutes)]

UpdateEdge_kph_only(e, ls) ==
    LET segment == SegmentRows(ls, e.key)
    IN  IF Cardinality(segment) < 1 THEN e
        ELSE IF Cardinality(segment) > 1 THEN e
        ELSE LET l == ls[CHOOSE j \in segment : TRUE]
             IN  [e EXCEPT !.attrs = SetItem(e.attrs, "kph", l.attributes.kph)]

\* the body of the loop over G.edges (lines 117-127)
UpdateEdge(e, ls) ==
    LET segment == SegmentRows(ls, e.key)
    IN  IF Cardinality(segment) < 1 THEN e
        ELSE IF Cardinality(segment) > 1 THEN e
        ELSE LET l == ls[CHOOSE j \in segment : TRUE]
             IN  [e EXCEPT !.attrs =
                     SetItem(SetItem(e.attrs, "kph", l.attributes.kph), "minutes", l.attributes.minutes)]

\* update_links (lines 114-129): every edge is visited, then energy is
\* recomputed over the whole network
update_links(g, ls) ==
    TomTomNetworkX_compute_energy(
        [g EXCEPT !.edges = [i \in DOMAIN g.edges |-> UpdateEdge(g.edges[i], ls)]])

(***************************************************************************)
(* nx.shortest_path(G, source, target, weight=name): with a source, a      *)
(* target and a weight the library runs bidirectional_dijkstra.            *)
(***************************************************************************)
\* attr.get(name, default)
Get(a, name, default) == IF name \in DOMAIN a THEN a[name] ELSE default

\* G.get_edge_data(u, v): the parallel edges from u to v, in key order
get_edge_data(g, u, v) ==
    LET Joins(e) == e.u = u /\ e.v = v IN SelectSeq(g.edges, Joins)

weight_function_first(g, name, u, v) == Get(get_edge_data(g, u, v)[1].attrs, name, 1)

\* _weight_function on a multigraph:
\*   lambda u, v, d: min(attr.get(weight, 1) for attr in d.values())
weight_function(g, name, u, v) ==
    MinOf({Get(e.attrs, name, 1) : e \in Range(get_edge_data(g, u, v))})

\* the neighbours of v in adjacency order: successors going forward
\* (dir = 1, G._succ), predecessors going backward (dir = 2, G._pred)
RECURSIVE NeighSeq(_, _, _, _)
NeighSeq(es, dir, v, acc) ==
    IF es = <<>> THEN acc
    ELSE LET e == Head(es)
             from == IF dir = 1 THEN e.u ELSE e.v
             to == IF dir = 1 THEN e.v ELSE e.u
         IN  NeighSeq(Tail(es), dir, v,
                 IF from = v /\ to \notin Range(acc) THEN Append(acc, to) ELSE acc)

EmptyMap == [n \in {} |-> 0]

\* heappop: the entry with the least (distance, counter)
HeapTop(F) ==
    CHOOSE t \in F : \A o \in F : t[1] < o[1] \/ (t[1] = o[1] /\ t[2] <= o[2])

\* the state of bidirectional_dijkstra before its loop
BDInit(source, target) ==
    [dists |-> <<EmptyMap, EmptyMap>>,
     paths |-> <<SetItem(EmptyMap, source, <<source>>), SetItem(EmptyMap, target, <<target>>)>>,
     fringe |-> <<{<<0, 0, source>>}, {<<0, 1, target>>}>>,
     seen |-> <<SetItem(EmptyMap, source, 0), SetItem(EmptyMap, target, 0)>>,
     c |-> 2,
     finaldist |-> 0,
     finalpath |-> <<>>,
     dir |-> 2,
     status |-> "run"]

\* the body of "for w, d in neighs[dir][v].items()" for one neighbour w
RelaxOne(g, name, st, dir, v, w) ==
    LET cost == IF dir = 1 THEN weight_function(g, name, v, w) ELSE weight_function(g, name, w, v)
        vwLength == st.dists[dir][v] + cost
    IN  IF w \in DOMAIN st.dists[dir]
        THEN IF vwLength < st.dists[dir][w] THEN [st EXCEPT !.status = "ValueError"] ELSE st
        ELSE IF w \notin DOMAIN st.seen[dir] \/ vwLength < st.seen[dir][w]
        THEN LET s1 == [st EXCEPT !.seen[dir] = SetItem(@, w, vwLength),
                                  !.fringe[dir] = @ \cup {<<vwLength, st.c, w>>},
                                  !.c = @ + 1,
                                  !.paths[dir] = SetItem(@, w, Append(st.paths[dir][v], w))]
             IN  IF w \in DOMAIN s1.seen[1] /\ w \in DOMAIN s1.seen[2]
                 THEN LET totaldist == s1.seen[1][w] + s1.seen[2][w]
                      IN  IF s1.finalpath = <<>> \/ s1.finaldist > totaldist
                          THEN [s1 EXCEPT !.finaldist = totaldist,
                                          !.finalpath = s1.paths[1][w] \o Tail(Reverse(s1.paths[2][w]))]
                          ELSE s1
                 ELSE s1
        ELSE st

RECURSIVE RelaxAll(_, _, _, _, _, _)
RelaxAll(g, name, st, dir, v, ws) ==
    IF ws = <<>> \/ st.status # "run" THEN st
    ELSE RelaxAll(g, name, RelaxOne(g, name, st, dir, v, Head(ws)), dir, v, Tail(ws))

\* one iteration of "while fringe[0] and fringe[1]"
BDStep(g, name, st) ==
    IF st.fringe[1] = {} \/ st.fringe[2] = {} THEN [st EXCEPT !.status = "NetworkXNoPath"]
    ELSE LET dir == 3 - st.dir
             top == HeapTop(st.fringe[dir])
             v == top[3]
             s1 == [st EXCEPT !.dir = dir, !.fringe[dir] = @ \ {top}]
         IN  IF v \in DOMAIN st.dists[dir] THEN s1
             ELSE LET s2 == [s1 EXCEPT !.dists[dir] = SetItem(@, v, top[1])]
                  IN  IF v \in DOMAIN s2.dists[3 - dir] THEN [s2 EXCEPT !.status = "ok"]
                      ELSE RelaxAll(g, name, s2, dir, v, NeighSeq(g.edges, dir, v, <<>>))

RECURSIVE BDRun(_, _, _)
BDRun(g, name, st) ==
    IF st.status # "run" THEN st ELSE BDRun(g, name, BDStep(g, name, st))

\* nx.shortest_path(G, source, target, weight=name): [status, path]
nx_shortest_path(g, source, target, name) ==
    IF source = target THEN [status |-> "ok", path |-> <<source>>]
    ELSE LET st == BDRun(g, name, BDInit(source, target))
         IN  [status |-> st.status, path |-> IF st.status = "ok" THEN st.finalpath ELSE <<>>]

(***************************************************************************)
(* shortest_path of each RoadNetwork class, and BasicRouter.route          *)
(* A Coordinate is [lat, lon].                                             *)
(***************************************************************************)
SqDist(g, n, coord) ==
    (g.lat[n] - coord.lat) * (g.lat[n] - coord.lat) + (g.lon[n] - coord.lon) * (g.lon[n] - coord.lon)

get_nearest_node_first(g, coord) == g.nodes[1]

\* _get_nearest_node: kdtree.query / rtree.nearest, the node at least distance
get_nearest_node(g, coord) ==
    CHOOSE n \in Range(g.nodes) : \A m \in Range(g.nodes) : SqDist(g, n, coord) <= SqDist(g, m, coord)

Coordinates(g, path) == [i \in 1..Len(path) |-> [lat |-> g.lat[path[i]], lon |-> g.lon[path[i]]]]

NoMetadata == [route_distance |-> 0, route_time |-> 0, route_energy |-> 0, present |-> FALSE]

NoResponse ==
    [op |-> "none", status |-> "none", error |-> "", searched |-> FALSE,
     origin |-> [lat |-> 0, lon |-> 0], destination |-> [lat |-> 0, lon |-> 0],
     origin_id |-> 0, dest_id |-> 0, weight |-> "", routee_key |-> "", network_weight |-> "",
     nx_route |-> <<>>, route |-> <<>>, metadata |-> NoMetadata, links_arg |-> <<>>,
     predicted |-> {}]

Raise(req, err, searched) ==
    [NoResponse EXCEPT !.op = "shortest_path", !.status = "error", !.error = err, !.searched = searched,
                       !.origin = req.origin, !.destination = req.destination,
                       !.origin_id = req.origin_id, !.dest_id = req.dest_id,
                       !.weight = req.weight, !.routee_key = req.routee_key,
                       !.network_weight = req.network_weight]

Return(g, req, path, md) ==
    [NoResponse EXCEPT !.op = "shortest_path", !.status = "ok", !.searched = TRUE,
                       !.origin = req.origin, !.destination = req.destination,
                       !.origin_id = req.origin_id, !.dest_id = req.dest_id,
                       !.weight = req.weight, !.routee_key = req.routee_key,
                       !.network_weight = req.network_weight,
                       !.nx_route = path, !.route = Coordinates(g, path), !.metadata = md]

\* the request after the nearest-node lookups; name is the string handed to
\* nx.shortest_path as weight
Request(g, origin, destination, weight, routee_key, name) ==
    [origin |-> origin, destination |-> destination,
     origin_id |-> get_nearest_node(g, origin), dest_id |-> get_nearest_node(g, destination),
     weight |-> weight, routee_key |-> routee_key, network_weight |-> name]

\* list(self.G.get_edge_data(e[0], e[1]).values())[0]
FirstEdgeData(g, u, v) == get_edge_data(g, u, v)[1].attrs

\* the metadata loop of TomTomNetworkX.shortest_path (lines 162-183)
RouteMetadata(g, path, routee_key) ==
    LET hops == [i \in 1..(Len(path) - 1) |-> FirstEdgeData(g, path[i], path[i + 1])]
    IN  [route_distance |-> SumSeq([i \in DOMAIN hops |-> hops[i]["meters"]]),
         route_time |-> SumSeq([i \in DOMAIN hops |-> hops[i]["minutes"]]),
         route_energy |-> SumSeq([i \in DOMAIN hops |-> hops[i][EnergyAttr(routee_key)]]),
         present |-> TRUE]

NetworkWeightName(i, weight, routee_key) ==
    IF weight = "ENERGY" THEN network_weights(i)[weight] \o "_" \o routee_key
    ELSE network_weights(i)[weight]

\* TomTomNetworkX.shortest_path
TomTomNetworkX_shortest_path(g, origin, destination, weight, routee_key) ==
    LET req == Request(g, origin, destination, weight, routee_key,
                       NetworkWeightName("TomTomNetworkX", weight, routee_key))
    IN  IF routee_key \notin routee_model_keys THEN Raise(req, "Exception", FALSE)
        ELSE LET r == nx_shortest_path(g, req.origin_id, req.dest_id, req.network_weight)
             IN  IF r.status # "ok" THEN Raise(req, r.status, TRUE)
                 ELSE Return(g, req, r.path, RouteMetadata(g, r.path, routee_key))

\* OSMNetworkX.shortest_path
OSMNetworkX_shortest_path(g, origin, destination, weight, routee_key) ==
    LET req == Request(g, origin, destination, weight, routee_key,
                       NetworkWeightName("OSMNetworkX", weight, routee_key))
    IN  IF routee_key \notin routee_model_keys THEN Raise(req, "Exception", FALSE)
        ELSE LET r == nx_shortest_path(g, req.origin_id, req.dest_id, req.network_weight)
             IN  IF r.status # "ok" THEN Raise(req, r.status, TRUE)
                 ELSE Return(g, req, r.path, NoMetadata)

\* TomTomRoadNetwork.shortest_path: network_weight is computed and then
\* self.network_weights[weight] is what is passed to nx.shortest_path
TomTomRoadNetwork_shortest_path(g, origin, destination, weight, routee_key) ==
    LET req == Request(g, origin, destination, weight, routee_key,
                       network_weights("TomTomRoadNetwork")[weight])
        r == nx_shortest_path(g, req.origin_id, req.dest_id, req.network_weight)
    IN  IF r.status # "ok" THEN Raise(req, r.status, TRUE)
        ELSE Return(g, req, r.path, NoMetadata)

\* OSMRoadNetwork.shortest_path (its keyword is routee_model_key)
OSMRoadNetwork_shortest_path(g, origin, destination, weight, routee_model_key) ==
    LET req == Request(g, origin, destination, weight, routee_model_key,
                       network_weights("OSMRoadNetwork")[weight])
        r == nx_shortest_path(g, req.origin_id, req.dest_id, req.network_weight)
    IN  IF r.status # "ok" THEN Raise(req, r.status, TRUE)
        ELSE Return(g, req, r.path, NoMetadata)

shortest_path(i, g, origin, destination, weight, routee_key) ==
    CASE i = "TomTomNetworkX" -> TomTomNetworkX_shortest_path(g, origin, destination, weight, routee_key)
      [] i = "OSMNetworkX" -> OSMNetworkX_shortest_path(g, origin, destination, weight, routee_key)
      [] i = "TomTomRoadNetwork" -> TomTomRoadNetwork_shortest_path(g, origin, destination, weight, routee_key)
      [] OTHER -> OSMRoadNetwork_shortest_path(g, origin, destination, weight, routee_key)

\* BasicRouter.route:
\*   self.road_network.shortest_path(origin, destination, weight=PathWeight.ENERGY, routee_key=routee_key)
\* OSMRoadNetwork.shortest_path has no parameter named routee_key
BasicRouter_route(i, g, origin, destination, routee_key) ==
    IF i = "OSMRoadNetwork"
    THEN [Raise(Request(g, origin, destination, "ENERGY", routee_key, ""), "TypeError", FALSE) EXCEPT !.op = "route"]
    ELSE [shortest_path(i, g, origin, destination, "ENERGY", routee_key) EXCEPT !.op = "route"]

(***************************************************************************)
(* Inputs of the road-network specification.                               *)
(***************************************************************************)
Junctions == 1..NumJunctions

\* junction n lies at lon 3n, lat 0; a segment's geometry joins its junctions
JunctionGeom(f, t) == <<<<3 * f, 0>>, <<3 * t, 0>>>>

AttrFlat == [meters |-> 1, minutes |-> 3, kph |-> 1, mean_grad |-> 0]
AttrSlope == [meters |-> 3, minutes |-> 1, kph |-> 2, mean_grad |-> -2]
SegAttrs == {AttrFlat, AttrSlope}

Row(id, f, t, oneway, a) ==
    [id |-> id, f_jnctid |-> f, t_jnctid |-> t, oneway |-> oneway,
     meters |-> a.meters, minutes |-> a.minutes, kph |-> a.kph, mean_grad |-> a.mean_grad,
     geom |-> JunctionGeom(f, t)]

\* the input tables: a one-way ring over the junctions, a second segment
\* from junction 1 to 2, a chord from the last junction to the first and a
\* segment leaving the ring for one more junction
Gdfs ==
    {[i \in 1..(NumJunctions + 3) |->
        CASE i = 1 -> Row(i, 1, 2, "FT", a1)
          [] i > 1 /\ i <= NumJunctions -> Row(i, i, (i % NumJunctions) + 1, "FT", AttrFlat)
          [] i = NumJunctions + 1 -> Row(i, 1, 2, "FT", a2)
          [] i = NumJunctions + 2 -> Row(i, NumJunctions, 1, oc, a3)
          [] OTHER -> Row(i, NumJunctions, NumJunctions + 1, od, AttrFlat)]
     : a1 \in SegAttrs, a2 \in SegAttrs, a3 \in SegAttrs, oc \in {"", "TF", "FT"}, od \in {"", "FT"}}

\* scripts/get_osm_road_network.py parse_road_network_graph: the OSM graphs
\* carry miles, travel_time, a speed attribute and grade 0
parse_road_network_graph(g, sp) ==
    [g EXCEPT !.compass_network_type = "osm",
              !.edges = [i \in DOMAIN g.edges |->
                  [g.edges[i] EXCEPT !.attrs =
                      SetItem([miles |-> @["meters"], travel_time |-> @["minutes"], grade |-> 0], sp, @["kph"])]]]

\* nx.read_gpickle(network_file): the pickled graph each class is built on
ReadGraph(i, g) == IF i \in TomTomImpls THEN g ELSE parse_road_network_graph(g, SpeedAttr(i))

QueryCoords == {[lat |-> 0, lon |-> 3 * n + 1] : n \in Junctions}

RequestKeys == RouteeKeys \cup {"Diesel"}

UpdateAttrs == {[kph |-> 3, minutes |-> 2], [kph |-> -4, minutes |-> -1]}

UpdateIds == {1, -(NumJunctions + 2), 99}

UpdateLinks == {[link_id |-> id, attributes |-> a] : id \in UpdateIds, a \in UpdateAttrs}

RECURSIVE SeqsUpTo(_, _)
SeqsUpTo(S, n) ==
    IF n = 0 THEN {<<>>}
    ELSE LET shorter == SeqsUpTo(S, n - 1)
         IN  shorter \cup {Append(q, x) : q \in {r \in shorter : Len(r) = n - 1}, x \in S}

\* the locals of HistoricSpeedsTomTomStream.update before it is called: t is
\* the polling loop's counter, requests counts the status requests issued,
\* sleeps lists the time.sleep arguments, features is <<>> for None and
\* <<fs>> for a feature list, result is <<>> until the call returns
NoStream ==
    [pc |-> "idle", t |-> 0, requests |-> 0, sleeps |-> <<>>, done_seen |-> FALSE,
     post |-> <<>>, status |-> <<>>, download |-> <<>>, features |-> <<>>,
     result |-> <<>>, error |-> "", before |-> <<>>]

\* the road-network classes that declare a data_streams list
StreamClasses == {"TomTomNetworkX", "OSMNetworkX"}

\* data_streams = [] in the class body: one list per class
NoDataStreams == [c \in StreamClasses |-> <<>>]

\* the data streams of a run
MaxStreams == 3
StreamIds == 1..MaxStreams

\* no callback is bound to any stream
NoObservers == [s \in StreamIds |-> <<>>]

StreamIdle == stream = NoStream /\ data_streams = NoDataStreams /\ observers = NoObservers

\* no CompassMap has been built
NoMap == [roads |-> <<>>, routee_model_collection |-> <<>>, routee_model_keys |-> <<>>]

BuilderIdle == segs = <<>> /\ links = <<>> /\ bpc = "idle" /\ restr = <<>>

ConcIdle ==
    /\ cpc = "idle" /\ cidx = 0 /\ clinks = <<>>
    /\ spc = "idle" /\ sreq = NoResponse /\ sst = BDInit(0, 0) /\ reads = {}
    /\ shop = 0 /\ G0 = <<>>

(***************************************************************************)
(* The road-network specification: a network object of one of the classes  *)
(* is constructed over a built graph, then updated and queried.            *)
(***************************************************************************)
Init ==
    /\ impl \in Impls
    /\ \E gdf \in Gdfs : \E comp \in build_graph_components(gdf) :
           G = Construct(impl, ReadGraph(impl, graph_to_file(build_graph(gdf, comp))))
    /\ response = NoResponse
    /\ updates = 0
    /\ BuilderIdle
    /\ ConcIdle
    /\ queries = <<>>
    /\ StreamIdle
    /\ compass_map = NoMap

UpdateResponse(ls, status, err) ==
    [NoResponse EXCEPT !.op = "update_links", !.status = status, !.error = err, !.links_arg = ls]

\* road_network.update_links(links)
UpdateLinksCall(ls) ==
    /\ response = NoResponse
    /\ impl \in {"TomTomNetworkX", "OSMNetworkX"}
    /\ updates < MaxUpdates
    /\ updates' = updates + 1
    /\ IF impl = "OSMNetworkX"
       THEN G' = G /\ response' = UpdateResponse(ls, "error", "NotImplemented")
       ELSE IF ls = <<>> /\ G.edges # <<>>
       THEN G' = G /\ response' = UpdateResponse(ls, "error", "AttributeError")
       ELSE /\ G' = update_links(G, ls)
            /\ response' = [UpdateResponse(ls, "ok", "") EXCEPT !.predicted = compute_energy_rows(G)]
    /\ UNCHANGED <<impl, segs, restr, queries, links, bpc, cpc, cidx, clinks, spc, sreq, sst, reads, shop, G0, stream, data_streams, observers, compass_map>>

\* TomTomRoadNetwork.update()
UpdateCall ==
    /\ response = NoResponse
    /\ impl = "TomTomRoadNetwork"
    /\ updates < MaxUpdates
    /\ updates' = updates + 1
    /\ G' = TomTomRoadNetwork_compute_energy(G)
    /\ response' = [NoResponse EXCEPT !.op = "update", !.status = "ok"]
    /\ UNCHANGED <<impl, segs, restr, queries, links, bpc, cpc, cidx, clinks, spc, sreq, sst, reads, shop, G0, stream, data_streams, observers, compass_map>>

\* road_network.shortest_path(origin, destination, weight, routee_key)
ShortestPathCall(origin, destination, weight, routee_key) ==
    /\ response = NoResponse
    /\ response' = shortest_path(impl, G, origin, destination, weight, routee_key)
    /\ UNCHANGED <<impl, G, updates, segs, restr, queries, links, bpc, cpc, cidx, clinks, spc, sreq, sst, reads, shop, G0, stream, data_streams, observers, compass_map>>

\* BasicRouter(road_network).route(origin, destination, routee_key)
RouteCall(origin, destination, routee_key) ==
    /\ response = NoResponse
    /\ response' = BasicRouter_route(impl, G, origin, destination, routee_key)
    /\ UNCHANGED <<impl, G, updates, segs, restr, queries, links, bpc, cpc, cidx, clinks, spc, sreq, sst, reads, shop, G0, stream, data_streams, observers, compass_map>>

\* the caller takes the outcome of its call; the network is idle again
ReturnToCaller ==
    /\ response # NoResponse
    /\ response' = NoResponse
    /\ UNCHANGED <<impl, G, updates, segs, restr, queries, links, bpc, cpc, cidx, clinks, spc, sreq, sst, reads, shop, G0, stream, data_streams, observers, compass_map>>

Next ==
    \/ ReturnToCaller
    \/ \E ls \in SeqsUpTo(UpdateLinks, MaxLinks) : UpdateLinksCall(ls)
    \/ UpdateCall
    \/ \E o \in QueryCoords, d \in QueryCoords, w \in PathWeights, k \in RequestKeys :
           ShortestPathCall(o, d, w, k)
    \/ \E o \in QueryCoords, d \in QueryCoords, k \in RequestKeys : RouteCall(o, d, k)

Spec == Init /\ [][Next]_vars

(***************************************************************************)
(* Properties of the road-network specification.                           *)
(***************************************************************************)
Last(p) == p[Len(p)]

OutNeighbours(g, u) == {g.edges[i].v : i \in {j \in DOMAIN g.edges : g.edges[j].u = u}}

\* the simple directed paths of g that extend p and end in t
RECURSIVE SimplePathsFrom(_, _, _)
SimplePathsFrom(g, p, t) ==
    IF Last(p) = t THEN {p}
    ELSE UNION {SimplePathsFrom(g, Append(p, w), t) : w \in OutNeighbours(g, Last(p)) \ Range(p)}

IsDirectedPath(g, p) ==
    /\ Len(p) >= 1
    /\ \A i \in 1..(Len(p) - 1) : \E j \in DOMAIN g.edges : g.edges[j].u = p[i] /\ g.edges[j].v = p[i + 1]

\* the least value of attribute name over the parallel edges from u to v
CheapestHop(g, name, u, v) ==
    MinOf({g.edges[j].attrs[name] : j \in {i \in DOMAIN g.edges : g.edges[i].u = u /\ g.edges[i].v = v}})

CheapestCost(g, name, p) == SumSeq([i \in 1..(Len(p) - 1) |-> CheapestHop(g, name, p[i], p[i + 1])])

\* the edge attribute a search weighted on weight is meant to minimise
IntendedAttr(i, weight, key) ==
    CASE weight = "DISTANCE" -> DistanceAttr(i)
      [] weight = "TIME" -> (IF i \in TomTomImpls THEN "minutes" ELSE "travel_time")
      [] OTHER -> "energy_" \o key

HasAttr(g, name) == \A j \in DOMAIN g.edges : name \in DOMAIN g.edges[j].attrs

NonNegative(g, name) == \A j \in DOMAIN g.edges : g.edges[j].attrs[name] >= 0

IsNearest(g, n, coord) ==
    n \in Range(g.nodes) /\ \A m \in Range(g.nodes) : SqDist(g, n, coord) <= SqDist(g, m, coord)

IsSearchResponse == response.op \in {"shortest_path", "route"}

\* the returned vertex sequence is a least-cost directed path under name
OptimalRoute(g, r, name) ==
    /\ r.status = "ok"
    /\ IsDirectedPath(g, r.nx_route)
    /\ IsNearest(g, r.nx_route[1], r.origin)
    /\ IsNearest(g, Last(r.nx_route), r.destination)
    /\ \A p \in SimplePathsFrom(g, <<r.nx_route[1]>>, Last(r.nx_route)) :
           CheapestCost(g, name, r.nx_route) <= CheapestCost(g, name, p)

\* C1: on a graph with non-negative costs TomTomNetworkX.shortest_path, asked
\* with a key of the model collection, returns a directed path from the
\* vertex nearest the origin to the vertex nearest the destination whose
\* cost under the weight's attribute, cheapest parallel edge per hop, is at
\* most the cost of every other directed path between the two vertices.
C1_ShortestPathOptimal ==
    (/\ impl = "TomTomNetworkX"
     /\ response.op = "shortest_path"
     /\ response.routee_key \in RouteeKeys
     /\ NonNegative(G, IntendedAttr(impl, response.weight, response.routee_key)))
    => OptimalRoute(G, response, IntendedAttr(impl, response.weight, response.routee_key))

\* a returned route of two hops although a direct link joins its ends
C1_Witness ==
    /\ impl = "TomTomNetworkX"
    /\ response.op = "shortest_path"
    /\ response.status = "ok"
    /\ Len(response.nx_route) = 3
    /\ Last(response.nx_route) \in OutNeighbours(G, response.nx_route[1])
    /\ NonNegative(G, IntendedAttr(impl, response.weight, response.routee_key))

\* C2: in every RoadNetwork class a search weighted on ENERGY (and so
\* BasicRouter.route) returns a route that minimises the sum of the edge
\* attribute energy_<routee_key> of the key the caller passed.
C2_EnergyMinimised ==
    (/\ IsSearchResponse
     /\ response.status = "ok"
     /\ response.weight = "ENERGY"
     /\ response.routee_key \in RouteeKeys
     /\ HasAttr(G, "energy_" \o response.routee_key)
     /\ NonNegative(G, "energy_" \o response.routee_key))
    => OptimalRoute(G, response, "energy_" \o response.routee_key)

\* C3: the totals in the metadata are the sums over the links the search
\* traversed, so the total of the optimised variable equals the cost the
\* search minimised, parallel links included.
C3_MetadataIsSearchCost ==
    (/\ response.op = "shortest_path"
     /\ response.status = "ok"
     /\ response.metadata.present
     /\ NonNegative(G, IntendedAttr(impl, response.weight, response.routee_key)))
    => LET total == CASE response.weight = "DISTANCE" -> response.metadata.route_distance
                      [] response.weight = "TIME" -> response.metadata.route_time
                      [] OTHER -> response.metadata.route_energy
       IN  total = CheapestCost(G, IntendedAttr(impl, response.weight, response.routee_key), response.nx_route)

\* C7: a request whose key is not among routee_model_keys is rejected before
\* the search starts, for every weight and in every RoadNetwork class.
C7_UnknownKeyRejected ==
    (IsSearchResponse /\ response.routee_key \notin routee_model_keys)
    => (response.status = "error" /\ ~response.searched)

DistinctIds(ls) == \A i, j \in DOMAIN ls : ls[i].link_id = ls[j].link_id => i = j

\* C8: after update_links(links) returns, every edge whose key equals the
\* link_id of a supplied link has the kph and minutes carried by that link,
\* for any tuple of links with distinct link_ids.
C8_UpdateApplied ==
    (response.op = "update_links" /\ response.status = "ok" /\ DistinctIds(response.links_arg))
    => \A j \in DOMAIN G.edges : \A i \in DOMAIN response.links_arg :
           G.edges[j].key = response.links_arg[i].link_id
           => /\ G.edges[j].attrs["kph"] = response.links_arg[i].attributes.kph
              /\ G.edges[j].attrs["minutes"] = response.links_arg[i].attributes.minutes

\* an update with two distinct link_ids, both of them keys of edges
C8_Witness ==
    /\ response.op = "update_links"
    /\ response.status = "ok"
    /\ Len(response.links_arg) = 2
    /\ DistinctIds(response.links_arg)
    /\ \A i \in DOMAIN response.links_arg :
           \E j \in DOMAIN G.edges : G.edges[j].key = response.links_arg[i].link_id

\* C9: in every reachable state of every RoadNetwork class every
\* energy_<model key> attribute of every edge is at least 0.
C9_EnergyNonNegative ==
    \A j \in DOMAIN G.edges : \A k \in RouteeKeys :
        EnergyAttr(k) \in DOMAIN G.edges[j].attrs => G.edges[j].attrs[EnergyAttr(k)] >= 0

\* C10: on a built graph, after any sequence of update_links calls, a search
\* weighted on a single variable returns a path whose distance, time and
\* energy totals are all non-negative.
C10_TotalsNonNegative ==
    (/\ impl = "TomTomNetworkX"
     /\ response.op = "shortest_path"
     /\ response.routee_key \in routee_model_keys)
    => /\ response.status = "ok"
       /\ response.metadata.route_distance >= 0
       /\ response.metadata.route_time >= 0
       /\ response.metadata.route_energy >= 0

(***************************************************************************)
(* The builders of the routable link list: scripts/build_rust_map.py,       *)
(* nrel/routee/compass/rust/rust_map.py and                                *)
(* scripts/compass_v2/build_compass_edgelist_tomtom.py.                     *)
(* A row of the network table is                                           *)
(*   [netw_id, junction_id_from, junction_id_to, centimeters,              *)
(*    mean_gradient_dec, free_flow_speed, speed_average_pos,               *)
(*    speed_average_neg, link_direction, geom].                            *)
(* netw_id is the table's feat_id and link_direction its                   *)
(* validity_direction.  A float column holds <<>> for NaN and <<x>> for a  *)
(* number; mean_gradient_dec counts ten-thousandths, so that               *)
(* mean_gradient_dec * 1000 is x / 10.                                     *)
(***************************************************************************)
FROM_TO_DIRECTION == 2
TO_FROM_DIRECTION == 3
DEFAULT_SPEED_KPH == 40

isna(x) == x = <<>>

\* int(x / d): Python's int() truncates towards zero
int_div(x, d) == IF x >= 0 THEN x \div d ELSE -((-x) \div d)

neg(x) == IF isna(x) THEN x ELSE <<-x[1]>>

\* build_speed(t, direction)
build_speed(t, direction) ==
    IF ~isna(t.free_flow_speed) THEN t.free_flow_speed[1]
    ELSE IF direction = TO_FROM_DIRECTION
    THEN IF ~isna(t.speed_average_neg) THEN t.speed_average_neg[1] ELSE DEFAULT_SPEED_KPH
    ELSE IF direction = FROM_TO_DIRECTION
    THEN IF ~isna(t.speed_average_pos) THEN t.speed_average_pos[1] ELSE DEFAULT_SPEED_KPH
    ELSE "ValueError"

\* Node(id, int(x), int(y))
Node(id, point) == [id |-> id, x |-> point[1], y |-> point[2]]

\* grade_milli = 0 if pd.isna(grade) else int(grade * 1000)
grade_milli(grade) == IF isna(grade) THEN 0 ELSE int_div(grade[1], 10)

\* a restriction table maps a segment id to a mapping from direction code
\* to limit; a table that is None behaves as the empty table, and the
\* result None is <<>>.  factor is the unit conversion of the kind.
restriction_none_as_zero(table, netw_id, direction, factor) ==
    IF netw_id \notin DOMAIN table THEN <<0>>
    ELSE LET r == table[netw_id]
         IN  IF 1 \in DOMAIN r THEN <<r[1] * factor>>
             ELSE IF direction \in DOMAIN r THEN <<r[direction] * factor>>
             ELSE <<0>>

restriction_direction_first(table, netw_id, direction, factor) ==
    IF netw_id \notin DOMAIN table THEN <<>>
    ELSE LET r == table[netw_id]
         IN  IF direction \in DOMAIN r THEN <<r[direction] * factor>>
             ELSE IF 1 \in DOMAIN r THEN <<r[1] * factor>>
             ELSE <<>>

\* build_link lines 87-149, one restriction kind
restriction(table, netw_id, direction, factor) ==
    IF netw_id \notin DOMAIN table THEN <<>>
    ELSE LET r == table[netw_id]
         IN  IF 1 \in DOMAIN r THEN <<r[1] * factor>>
             ELSE IF direction \in DOMAIN r THEN <<r[direction] * factor>>
             ELSE <<>>

\* int(wr[...] * 2000): tons to lbs
TONS_TO_LBS == 2000

\* the part of build_link that both rust builders share: the link of row t
\* in the given direction, its junctions numbered by ids
directed_link(t, direction, ids) ==
    LET geom == IF direction = TO_FROM_DIRECTION THEN Reverse(t.geom) ELSE t.geom
        grade == IF direction = TO_FROM_DIRECTION THEN neg(t.mean_gradient_dec) ELSE t.mean_gradient_dec
        first == IF direction = TO_FROM_DIRECTION THEN t.junction_id_to ELSE t.junction_id_from
        last == IF direction = TO_FROM_DIRECTION THEN t.junction_id_from ELSE t.junction_id_to
    IN  [start_node |-> Node(ids[first], geom[1]),
         end_node |-> Node(ids[last], geom[Len(geom)]),
         speed_kph |-> build_speed(t, direction),
         distance |-> t.centimeters,
         grade_milli |-> grade_milli(grade),
         weight_restriction |-> restriction(restr.weight, t.netw_id, direction, TONS_TO_LBS),
         height_restriction |-> restriction(restr.height, t.netw_id, direction, 1),
         width_restriction |-> restriction(restr.width, t.netw_id, direction, 1),
         length_restriction |-> restriction(restr.length, t.netw_id, direction, 1)]

\* scripts/build_rust_map.py build_link: junction_id_to is numbered before
\* junction_id_from, each with the next free id when it is new
build_link(t, direction, node_id_mapping, node_id_counter) ==
    LET m1 == IF t.junction_id_to \in DOMAIN node_id_mapping THEN node_id_mapping
              ELSE SetItem(node_id_mapping, t.junction_id_to, node_id_counter)
        c1 == IF t.junction_id_to \in DOMAIN node_id_mapping THEN node_id_counter ELSE node_id_counter + 1
        m2 == IF t.junction_id_from \in DOMAIN m1 THEN m1
              ELSE SetItem(m1, t.junction_id_from, c1)
        c2 == IF t.junction_id_from \in DOMAIN m1 THEN c1 ELSE c1 + 1
    IN  [link |-> directed_link(t, direction, m2), node_id_mapping |-> m2, node_id_counter |-> c2]

\* one of the four loops of links_from_df: build_link over the rows, in order
RECURSIVE build_links(_, _, _)
build_links(rows, direction, acc) ==
    IF rows = <<>> THEN acc
    ELSE LET b == build_link(Head(rows), direction, acc.node_id_mapping, acc.node_id_counter)
         IN  build_links(Tail(rows), direction,
                 [links |-> Append(acc.links, b.link),
                  node_id_mapping |-> b.node_id_mapping,
                  node_id_counter |-> b.node_id_counter])

IsFromTo(t) == t.link_direction = FROM_TO_DIRECTION
IsToFrom(t) == t.link_direction = TO_FROM_DIRECTION
\* gdf.link_direction.isin([1, 9])
IsTwowayCode(t) == t.link_direction \in {1, 9}

\* scripts/build_rust_map.py links_from_df
links_from_df(gdf, node_id_mapping, node_id_counter) ==
    LET oneway_ft == SelectSeq(gdf, IsFromTo)
        oneway_tf == SelectSeq(gdf, IsToFrom)
        twoway == SelectSeq(gdf, IsTwowayCode)
        a0 == [links |-> <<>>, node_id_mapping |-> node_id_mapping, node_id_counter |-> node_id_counter]
        a1 == build_links(twoway, TO_FROM_DIRECTION, a0)
        a2 == build_links(twoway, FROM_TO_DIRECTION, a1)
        a3 == build_links(oneway_ft, FROM_TO_DIRECTION, a2)
    IN  build_links(oneway_tf, TO_FROM_DIRECTION, a3)

\* dfs = gpd.read_postgis(q, con=engine, chunksize=...): the table cut into
\* chunks of chunksize rows, the last one shorter
RECURSIVE read_postgis(_, _)
read_postgis(gdf, chunksize) ==
    IF Len(gdf) <= chunksize THEN (IF gdf = <<>> THEN <<>> ELSE <<gdf>>)
    ELSE <<SubSeq(gdf, 1, chunksize)>> \o read_postgis(SubSeq(gdf, chunksize + 1, Len(gdf)), chunksize)

\* the chunk loop of the main block: links_from_df over the chunks, the
\* mapping and the counter handed from chunk to chunk
RECURSIVE links_from_dfs(_, _)
links_from_dfs(dfs, acc) ==
    IF dfs = <<>> THEN acc
    ELSE LET more == links_from_df(Head(dfs), acc.node_id_mapping, acc.node_id_counter)
         IN  links_from_dfs(Tail(dfs),
                 [links |-> acc.links \o more.links,
                  node_id_mapping |-> more.node_id_mapping,
                  node_id_counter |-> more.node_id_counter])

build_rust_map_links(gdf, chunksize) ==
    links_from_dfs(read_postgis(gdf, chunksize),
                   [links |-> <<>>, node_id_mapping |-> EmptyMap, node_id_counter |-> 0])

\* nrel/routee/compass/rust/rust_map.py build_link: the junctions are
\* numbered beforehand; the row's kilometers column counts metres, so that
\* int(kilometers * 1000) is the count itself
rust_map_build_link(t, direction, nodes) ==
    LET l == directed_link(t, direction, nodes)
        minutes == IF direction = TO_FROM_DIRECTION THEN t.neg_minutes ELSE t.pos_minutes
    IN  [start_node |-> l.start_node,
         end_node |-> l.end_node,
         road_class |-> IF isna(t.display_class) THEN 100 ELSE t.display_class[1],
         time_seconds |-> minutes * 60,
         distance |-> t.kilometers,
         grade_milli |-> l.grade_milli,
         weight_restriction |-> l.weight_restriction,
         height_restriction |-> l.height_restriction,
         width_restriction |-> l.width_restriction,
         length_restriction |-> l.length_restriction]

\* for i, n in enumerate(node_ids): node_ids is a set of strings, whose
\* iteration order the interpreter does not fix; every numbering of the
\* junctions by 0 .. n-1 is a possible outcome
NodeNumberings(gdf) ==
    LET node_ids == {gdf[i].junction_id_from : i \in DOMAIN gdf} \cup {gdf[i].junction_id_to : i \in DOMAIN gdf}
        n == Cardinality(node_ids)
    IN  {f \in [node_ids -> 0..(n - 1)] : \A a, b \in node_ids : f[a] = f[b] => a = b}

\* build_rust_map_from_gdf up to graph.add_links_bulk(links)
rust_map_links(gdf, nodes) ==
    LET oneway_ft == SelectSeq(gdf, IsFromTo)
        oneway_tf == SelectSeq(gdf, IsToFrom)
        twoway == SelectSeq(gdf, IsTwowayCode)
        tf(t) == rust_map_build_link(t, TO_FROM_DIRECTION, nodes)
        ft(t) == rust_map_build_link(t, FROM_TO_DIRECTION, nodes)
    IN  [i \in DOMAIN twoway |-> tf(twoway[i])]
        \o [i \in DOMAIN twoway |-> ft(twoway[i])]
        \o [i \in DOMAIN oneway_ft |-> ft(oneway_ft[i])]
        \o [i \in DOMAIN oneway_tf |-> tf(oneway_tf[i])]

\* compass_rust.largest_scc(graph): the links of the graph that join the
\* vertices of comp, a largest strongly connected component of it
LinkGraph(ls) ==
    [nodes |-> NodeOrder([i \in DOMAIN ls |-> [u |-> ls[i].start_node.id, v |-> ls[i].end_node.id]], <<>>),
     edges |-> [i \in DOMAIN ls |-> [u |-> ls[i].start_node.id, v |-> ls[i].end_node.id]]]

largest_scc_components(ls) ==
    LargestComponents(strongly_connected_components(LinkGraph(ls)))

largest_scc(ls, comp) ==
    LET Retained(l) == l.start_node.id \in comp /\ l.end_node.id \in comp
    IN  SelectSeq(ls, Retained)

\* build_compass_edgelist_tomtom.py; distance_meters counts hundredths of a
\* metre, so that centimeters / 100.0 is the count itself, and grade counts
\* ten-thousandths like the column it is read from
FWD_REV_LINK == 1
FORWARD_LINK == 2
REVERSE_LINK == 3
OTHER_LINK == 9

create_fwd_edge(row) ==
    [edge_uuid |-> row.netw_id,
     src_vertex_uuid |-> row.junction_id_from,
     dst_vertex_uuid |-> row.junction_id_to,
     road_class |-> row.routing_class,
     speed_free_flow_kph |-> row.free_flow_speed,
     distance_meters |-> row.centimeters,
     grade |-> IF isna(row.mean_gradient_dec) THEN 0 ELSE row.mean_gradient_dec[1],
     geometry |-> row.geom]

create_rev_edge(row) ==
    [edge_uuid |-> row.netw_id,
     src_vertex_uuid |-> row.junction_id_to,
     dst_vertex_uuid |-> row.junction_id_from,
     road_class |-> row.routing_class,
     speed_free_flow_kph |-> row.free_flow_speed,
     distance_meters |-> row.centimeters,
     grade |-> IF isna(row.mean_gradient_dec) THEN 0 ELSE -row.mean_gradient_dec[1],
     geometry |-> Reverse(row.geom)]

create_edges_from_row(row) ==
    IF row.link_direction = FWD_REV_LINK THEN <<create_fwd_edge(row), create_rev_edge(row)>>
    ELSE IF row.link_direction = FORWARD_LINK \/ row.link_direction = OTHER_LINK THEN <<create_fwd_edge(row)>>
    ELSE IF row.link_direction = REVERSE_LINK THEN <<create_rev_edge(row)>>
    ELSE <<create_fwd_edge(row)>>

\* for idx, row in df.iterrows(): directed.extend(create_edges_from_row(row))
RECURSIVE create_edges(_)
create_edges(df) ==
    IF df = <<>> THEN <<>> ELSE create_edges_from_row(Head(df)) \o create_edges(Tail(df))

(***************************************************************************)
(* The builder specification: a builder is run once over an input table.   *)
(***************************************************************************)
MaxSegs == 2

DirectionCodes == {1, 2, 3, 9, 5}

Grades == {<<15>>, <<-27>>, <<>>}

\* segment i runs from junction i to junction i + 1 over one inner point
NetRow(i, dir, grade) ==
    [netw_id |-> i, junction_id_from |-> i, junction_id_to |-> i + 1,
     centimeters |-> 100 * i, kilometers |-> i, routing_class |-> 5, display_class |-> <<>>,
     pos_minutes |-> i, neg_minutes |-> i + 1,
     mean_gradient_dec |-> grade,
     free_flow_speed |-> IF i % 2 = 0 THEN <<50>> ELSE <<>>,
     speed_average_pos |-> <<30>>, speed_average_neg |-> <<>>,
     link_direction |-> dir,
     geom |-> <<<<3 * i, 0>>, <<3 * i + 1, 1>>, <<3 * i + 3, 0>>>>]

Networks ==
    {[i \in 1..MaxSegs |-> NetRow(i, d[i], IF i = 1 THEN g ELSE <<20>>)] :
        d \in [1..MaxSegs -> DirectionCodes], g \in Grades}

\* the entries a restriction table can hold for segment 1
RestrictionEntries ==
    {(1 :> 3), (FROM_TO_DIRECTION :> 4), (TO_FROM_DIRECTION :> 0),
     (1 :> 3 @@ FROM_TO_DIRECTION :> 4)}

RestrictionTables == {EmptyMap} \cup {(1 :> e) : e \in RestrictionEntries}

NoRestrictions == [weight |-> EmptyMap, height |-> EmptyMap, width |-> EmptyMap, length |-> EmptyMap]

Restrictions ==
    {[weight |-> a, height |-> b, width |-> a, length |-> b] : a \in RestrictionTables, b \in RestrictionTables}

\* CHUNK_SIZE rows per chunk: every row its own chunk, or the whole table
\* in one chunk
ChunkSizes == {1, MaxSegs + 1}

NoLinks == [emitted |-> <<>>, graph |-> <<>>, node_id_mapping |-> EmptyMap, node_id_counter |-> 0, chunksize |-> 0]

EmptyGraph == [nodes |-> <<>>, lon |-> EmptyMap, lat |-> EmptyMap, edges |-> <<>>, compass_network_type |-> "none"]

NetworkIdle == impl = "none" /\ response = NoResponse /\ updates = 0

InitBuild ==
    /\ \/ segs \in Gdfs \cup {<<>>} /\ bpc = "gdf" /\ restr = NoRestrictions
       \/ segs \in Networks /\ bpc = "network" /\ restr \in Restrictions
    /\ links = NoLinks
    /\ G = EmptyGraph
    /\ NetworkIdle
    /\ ConcIdle
    /\ queries = <<>>
    /\ StreamIdle
    /\ compass_map = NoMap

\* scripts/get_tomtom_road_network.py: build_graph(gdf)
BuildGraph ==
    /\ bpc = "gdf"
    /\ IF build_graph_components(segs) = {}
       THEN G' = G /\ bpc' = "ValueError"
       ELSE /\ \E comp \in build_graph_components(segs) : G' = build_graph(segs, comp)
            /\ bpc' = "build_graph"
    /\ UNCHANGED <<impl, response, updates, segs, restr, queries, links, cpc, cidx, clinks, spc, sreq, sst, reads, shop, G0, stream, data_streams, observers, compass_map>>

\* graph = Graph(); graph.add_links_bulk(ls); graph = largest_scc(graph)
ExtractLargestScc(r, chunksize, done) ==
    LET built == [emitted |-> r.links, graph |-> <<>>, node_id_mapping |-> r.node_id_mapping,
                  node_id_counter |-> r.node_id_counter, chunksize |-> chunksize]
    IN  IF r.links = <<>>
        THEN /\ links' = built
             /\ bpc' = "DisconnectedGraphError"
        ELSE /\ \E comp \in largest_scc_components(r.links) :
                    links' = [built EXCEPT !.graph = largest_scc(r.links, comp)]
             /\ bpc' = done

\* scripts/build_rust_map.py, the main block: read_postgis hands the table
\* over in chunks of chunksize rows
BuildRustMap ==
    /\ bpc = "network"
    /\ \E chunksize \in ChunkSizes :
           ExtractLargestScc(build_rust_map_links(segs, chunksize), chunksize, "build_rust_map")
    /\ UNCHANGED <<impl, G, response, updates, segs, restr, queries, cpc, cidx, clinks, spc, sreq, sst, reads, shop, G0, stream, data_streams, observers, compass_map>>

\* nrel/routee/compass/rust/rust_map.py: build_rust_map_from_gdf(gdf)
BuildRustMapFromGdf ==
    /\ bpc = "network"
    /\ \E nodes \in NodeNumberings(segs) :
           ExtractLargestScc([links |-> rust_map_links(segs, nodes), node_id_mapping |-> nodes,
                              node_id_counter |-> Cardinality(DOMAIN nodes)],
                             Len(segs), "build_rust_map_from_gdf")
    /\ UNCHANGED <<impl, G, response, updates, segs, restr, queries, cpc, cidx, clinks, spc, sreq, sst, reads, shop, G0, stream, data_streams, observers, compass_map>>

\* build_compass_edgelist_tomtom.py, the main block over one parquet file
BuildCompassEdgelist ==
    /\ bpc = "network"
    /\ links' = [NoLinks EXCEPT !.emitted = create_edges(segs), !.chunksize = Len(segs)]
    /\ bpc' = "build_compass_edgelist"
    /\ UNCHANGED <<impl, G, response, updates, segs, restr, queries, cpc, cidx, clinks, spc, sreq, sst, reads, shop, G0, stream, data_streams, observers, compass_map>>

NextBuild ==
    \/ BuildGraph
    \/ BuildRustMap
    \/ BuildRustMapFromGdf
    \/ BuildCompassEdgelist

SpecBuild == InitBuild /\ [][NextBuild]_vars

(***************************************************************************)
(* Properties of the builder specification.                                *)
(***************************************************************************)
MutuallyReachable(nodes, es) ==
    \A u \in nodes : \A v \in nodes :
        \E p \in SimplePathsFrom([edges |-> es], <<u>>, v) : TRUE

EndpointsRetained(nodes, es) ==
    \A i \in DOMAIN es : es[i].u \in nodes /\ es[i].v \in nodes

\* C5: the graph a builder hands to search is strongly connected: every
\* ordered pair of retained vertices is joined by a directed path of retained
\* links, and every retained link has both endpoints among the retained
\* vertices.
C5_StronglyConnected ==
    /\ bpc = "build_graph"
       => /\ MutuallyReachable(Range(G.nodes), G.edges)
          /\ EndpointsRetained(Range(G.nodes), G.edges)
    /\ bpc \in {"build_rust_map", "build_rust_map_from_gdf"}
       => LET g == LinkGraph(links.graph)
          IN  /\ MutuallyReachable(Range(g.nodes), g.edges)
              /\ EndpointsRetained(Range(g.nodes), g.edges)

\* build_graph has dropped a junction of the table and kept at least two
C5_Witness ==
    /\ bpc = "build_graph"
    /\ Len(G.nodes) >= 2
    /\ Len(G.nodes) < Len(RawGraph(segs).nodes)

LinkBuilders == {"build_rust_map", "build_rust_map_from_gdf", "build_compass_edgelist"}

\* the emitted links that come from row t: the edge list names the row in
\* edge_uuid; a rust link carries the row's length, which no other row has
EmittedOf(t) ==
    {i \in DOMAIN links.emitted :
        CASE bpc = "build_compass_edgelist" -> links.emitted[i].edge_uuid = t.netw_id
          [] bpc = "build_rust_map" -> links.emitted[i].distance = t.centimeters
          [] OTHER -> links.emitted[i].distance = t.kilometers}

ForwardGrade(t) ==
    IF bpc = "build_compass_edgelist"
    THEN (IF isna(t.mean_gradient_dec) THEN 0 ELSE t.mean_gradient_dec[1])
    ELSE grade_milli(t.mean_gradient_dec)

\* link l runs from junction a to junction b with the given grade over the
\* coordinates geom
RunsAlong(l, a, b, grade, geom) ==
    IF bpc = "build_compass_edgelist"
    THEN /\ l.src_vertex_uuid = a
         /\ l.dst_vertex_uuid = b
         /\ l.grade = grade
         /\ l.geometry = geom
    ELSE /\ l.start_node = Node(links.node_id_mapping[a], geom[1])
         /\ l.end_node = Node(links.node_id_mapping[b], geom[Len(geom)])
         /\ l.grade_milli = grade

IsForwardLink(l, t) == RunsAlong(l, t.junction_id_from, t.junction_id_to, ForwardGrade(t), t.geom)

IsReverseLink(l, t) == RunsAlong(l, t.junction_id_to, t.junction_id_from, -ForwardGrade(t), Reverse(t.geom))

\* C6: for every input segment the builder emits one link per applicable
\* direction: a BIDIRECTIONAL segment (code 1 or 9) with grade g yields
\* exactly two links, the forward link from -> to with grade g and the
\* reverse link to -> from with grade -g and reversed geometry; a FORWARD
\* segment (code 2) yields only the forward link, a REVERSE segment (code 3)
\* only the reverse link.
C6_DirectionSplitting ==
    bpc \in LinkBuilders =>
        \A n \in DOMAIN segs :
            LET t == segs[n]
                ls == EmittedOf(t)
            IN  /\ t.link_direction \in {1, 9}
                   => /\ Cardinality(ls) = 2
                      /\ \E i \in ls : IsForwardLink(links.emitted[i], t)
                      /\ \E i \in ls : IsReverseLink(links.emitted[i], t)
                /\ t.link_direction = FORWARD_LINK
                   => /\ Cardinality(ls) = 1
                      /\ \A i \in ls : IsForwardLink(links.emitted[i], t)
                /\ t.link_direction = REVERSE_LINK
                   => /\ Cardinality(ls) = 1
                      /\ \A i \in ls : IsReverseLink(links.emitted[i], t)

(***************************************************************************)
(* The concurrent specification: one thread runs                           *)
(* TomTomNetworkX.update_links while another runs                          *)
(* TomTomNetworkX.shortest_path on the same network object.  Neither       *)
(* method takes a lock or copies the graph; a thread switch can fall       *)
(* between two iterations of either method's loops.                        *)
(***************************************************************************)
ConcGdfs == {gdf \in Gdfs : gdf[NumJunctions + 2].oneway = "" /\ gdf[NumJunctions + 3].oneway = "FT"}

\* the updates of the concurrent runs carry the plausible speeds only
ConcUpdateLinks == {l \in UpdateLinks : l.attributes.kph > 0 /\ l.attributes.minutes > 0}

InitConc ==
    /\ impl = "TomTomNetworkX"
    /\ \E gdf \in ConcGdfs : \E comp \in build_graph_components(gdf) :
           G = Construct(impl, ReadGraph(impl, graph_to_file(build_graph(gdf, comp))))
    /\ G0 = G
    /\ response = NoResponse
    /\ updates = 0
    /\ BuilderIdle
    /\ queries = <<>>
    /\ StreamIdle
    /\ compass_map = NoMap
    /\ cpc = "idle" /\ cidx = 0 /\ clinks = <<>>
    /\ spc = "idle" /\ sreq = NoResponse /\ sst = BDInit(0, 0) /\ reads = {} /\ shop = 0

\* update_links is entered: link_df is built from the links
StartUpdate(ls) ==
    /\ cpc = "idle"
    /\ ls # <<>>
    /\ cpc' = "loop"
    /\ cidx' = 1
    /\ clinks' = ls
    /\ G0' = G
    /\ UNCHANGED <<impl, G, response, updates, segs, restr, queries, links, bpc, spc, sreq, sst, reads, shop, stream, data_streams, observers, compass_map>>

\* one iteration of the loop over G.edges
UpdateLoopStep ==
    /\ cpc = "loop"
    /\ cidx <= Len(G.edges)
    /\ G' = [G EXCEPT !.edges[cidx] = UpdateEdge(@, clinks)]
    /\ cidx' = cidx + 1
    /\ UNCHANGED <<impl, response, updates, segs, restr, queries, links, bpc, cpc, clinks, spc, sreq, sst, reads, shop, G0, stream, data_streams, observers, compass_map>>

\* the loop is over: self._compute_energy(), and update_links returns
UpdateComputeEnergy ==
    /\ cpc = "loop"
    /\ cidx > Len(G.edges)
    /\ G' = TomTomNetworkX_compute_energy(G)
    /\ cpc' = "done"
    /\ updates' = updates + 1
    /\ UNCHANGED <<impl, response, segs, restr, queries, links, bpc, cidx, clinks, spc, sreq, sst, reads, shop, G0, stream, data_streams, observers, compass_map>>

\* the reads of attribute name on the parallel edges from u to v
EdgeReads(g, name, u, v) ==
    {[edge |-> j, name |-> name, value |-> Get(g.edges[j].attrs, name, 1)] :
        j \in {i \in DOMAIN g.edges : g.edges[i].u = u /\ g.edges[i].v = v}}

\* the edge weights that one iteration of the search loop evaluates
StepReads(g, name, st) ==
    IF st.fringe[1] = {} \/ st.fringe[2] = {} THEN {}
    ELSE LET dir == 3 - st.dir
             v == HeapTop(st.fringe[dir])[3]
         IN  IF v \in DOMAIN st.dists[dir] \/ v \in DOMAIN st.dists[3 - dir] THEN {}
             ELSE UNION {IF dir = 1 THEN EdgeReads(g, name, v, w) ELSE EdgeReads(g, name, w, v) :
                            w \in Range(NeighSeq(g.edges, dir, v, <<>>))}

\* shortest_path is entered (lines 143-152) and nx.shortest_path sets up
StartSearch(origin, destination, weight, routee_key) ==
    /\ spc = "idle"
    /\ LET req == Request(G, origin, destination, weight, routee_key,
                          NetworkWeightName("TomTomNetworkX", weight, routee_key))
       IN  IF routee_key \notin routee_model_keys
           THEN /\ sreq' = Raise(req, "Exception", FALSE)
                /\ spc' = "done"
                /\ sst' = sst
           ELSE IF req.origin_id = req.dest_id
           THEN /\ sreq' = Return(G, req, <<req.origin_id>>, [NoMetadata EXCEPT !.present = TRUE])
                /\ spc' = "metadata"
                /\ sst' = sst
           ELSE /\ sreq' = [Raise(req, "", TRUE) EXCEPT !.status = "running"]
                /\ spc' = "search"
                /\ sst' = BDInit(req.origin_id, req.dest_id)
    /\ shop' = 1
    /\ UNCHANGED <<impl, G, response, updates, segs, restr, queries, links, bpc, cpc, cidx, clinks, reads, G0, stream, data_streams, observers, compass_map>>

\* one iteration of the loop of bidirectional_dijkstra
SearchStep ==
    /\ spc = "search"
    /\ LET st == BDStep(G, sreq.network_weight, sst)
       IN  /\ sst' = st
           /\ reads' = reads \cup StepReads(G, sreq.network_weight, sst)
           /\ IF st.status = "run" THEN UNCHANGED <<spc, sreq>>
              ELSE IF st.status = "ok"
              THEN /\ sreq' = Return(G, sreq, st.finalpath, [NoMetadata EXCEPT !.present = TRUE])
                   /\ spc' = "metadata"
              ELSE /\ sreq' = Raise(sreq, st.status, TRUE)
                   /\ spc' = "done"
    /\ UNCHANGED <<impl, G, response, updates, segs, restr, queries, links, bpc, cpc, cidx, clinks, shop, G0, stream, data_streams, observers, compass_map>>

\* one iteration of the metadata loop (lines 168-172), or its end
MetadataStep ==
    /\ spc = "metadata"
    /\ IF shop >= Len(sreq.nx_route)
       THEN /\ spc' = "done"
            /\ UNCHANGED <<sreq, reads, shop>>
       ELSE LET u == sreq.nx_route[shop]
                v == sreq.nx_route[shop + 1]
                j == CHOOSE i \in DOMAIN G.edges :
                        /\ G.edges[i].u = u /\ G.edges[i].v = v
                        /\ \A k \in 1..(i - 1) : ~(G.edges[k].u = u /\ G.edges[k].v = v)
                edge_data == FirstEdgeData(G, u, v)
                energy_key == EnergyAttr(sreq.routee_key)
            IN  /\ sreq' = [sreq EXCEPT
                       !.metadata.route_energy = @ + edge_data[energy_key],
                       !.metadata.route_time = @ + edge_data["minutes"],
                       !.metadata.route_distance = @ + edge_data["meters"]]
                /\ reads' = reads \cup {[edge |-> j, name |-> n, value |-> edge_data[n]] :
                                           n \in {energy_key, "minutes", "meters"}}
                /\ shop' = shop + 1
                /\ spc' = spc
    /\ UNCHANGED <<impl, G, response, updates, segs, restr, queries, links, bpc, cpc, cidx, clinks, sst, G0, stream, data_streams, observers, compass_map>>

NextConc ==
    \/ \E ls \in SeqsUpTo(ConcUpdateLinks, MaxLinks) : StartUpdate(ls)
    \/ UpdateLoopStep
    \/ UpdateComputeEnergy
    \/ \E o \in QueryCoords, d \in QueryCoords, w \in PathWeights, k \in RequestKeys :
           StartSearch(o, d, w, k)
    \/ SearchStep
    \/ MetadataStep

SpecConc == InitConc /\ [][NextConc]_vars

(***************************************************************************)
(* Properties of the concurrent specification.                             *)
(***************************************************************************)
ReadsFrom(g) == \A r \in reads : r.value = Get(g.edges[r.edge].attrs, r.name, 1)

\* C4: a search that runs concurrently with update_links never observes a
\* partially applied update: all the edge attribute values one
\* shortest_path call has read come either from the graph as it was before
\* the update or from the graph as update_links leaves it, re-derived
\* energy included.
C4_NoPartialUpdate ==
    (spc = "done" /\ sreq.status = "ok")
    => \/ ReadsFrom(G0)
       \/ cpc # "idle" /\ ReadsFrom(update_links(G0, clinks))

(***************************************************************************)
(* Properties of the link builders: restrictions.                          *)
(***************************************************************************)
RustBuilders == {"build_rust_map", "build_rust_map_from_gdf"}

RestrictionKinds == {"weight", "height", "width", "length"}

RestrictionOf(l, kind) ==
    CASE kind = "weight" -> l.weight_restriction
      [] kind = "height" -> l.height_restriction
      [] kind = "width"  -> l.width_restriction
      [] OTHER           -> l.length_restriction

\* the unit in which a link stores the limit of a kind, per table unit
UnitFactor(kind) == IF kind = "weight" THEN TONS_TO_LBS ELSE 1

\* the direction code of the emitted link l of row t
LinkDirection(l, t) ==
    IF l.start_node.id = links.node_id_mapping[t.junction_id_from]
    THEN FROM_TO_DIRECTION
    ELSE TO_FROM_DIRECTION

\* the table's entry for row t: a mapping from direction code to limit,
\* empty when the table has no entry for the row
TableEntry(kind, t) ==
    IF t.netw_id \in DOMAIN restr[kind] THEN restr[kind][t.netw_id] ELSE EmptyMap

\* C11: for each restriction kind, a link's restriction is the value under
\* direction code 1 when the table's entry for the segment has one, else
\* the value under the link's own direction code when that is present,
\* else the link is unrestricted for the kind; a segment without an entry
\* is unrestricted, and unrestricted (<<>>) is not the limit 0 (<<0>>).
C11_RestrictionResolution ==
    bpc \in RustBuilders =>
        \A n \in DOMAIN segs : \A i \in EmittedOf(segs[n]) : \A kind \in RestrictionKinds :
            LET t == segs[n]
                l == links.emitted[i]
                e == TableEntry(kind, t)
                d == LinkDirection(l, t)
                r == RestrictionOf(l, kind)
            IN  /\ 1 \in DOMAIN e => r = <<e[1] * UnitFactor(kind)>>
                /\ (1 \notin DOMAIN e /\ d \in DOMAIN e) => r = <<e[d] * UnitFactor(kind)>>
                /\ (1 \notin DOMAIN e /\ d \notin DOMAIN e) => r = <<>>
                /\ (r # <<>>) => Len(r) = 1

\* a link whose segment has both a code-1 and a direction-specific weight
\* limit, next to a reverse link limited to height 0 and a link of a
\* segment without any entry
C11_Witness ==
    /\ bpc \in RustBuilders
    /\ \E n \in DOMAIN segs : \E i \in EmittedOf(segs[n]) :
           LET e == TableEntry("weight", segs[n])
               l == links.emitted[i]
           IN  /\ {1, FROM_TO_DIRECTION} \subseteq DOMAIN e
               /\ LinkDirection(l, segs[n]) = FROM_TO_DIRECTION
               /\ l.weight_restriction = <<e[1] * TONS_TO_LBS>>
    /\ \E n \in DOMAIN segs : \E i \in EmittedOf(segs[n]) :
           /\ TableEntry("height", segs[n]) = (TO_FROM_DIRECTION :> 0)
           /\ links.emitted[i].height_restriction = <<0>>
    /\ \E n \in DOMAIN segs : \E i \in EmittedOf(segs[n]) :
           /\ TableEntry("weight", segs[n]) = EmptyMap
           /\ links.emitted[i].weight_restriction = <<>>

(***************************************************************************)
(* The search over a built RustMap.  The search itself is native code of   *)
(* compass_rust; it is modelled from the specification's sections on       *)
(* restriction filtering and edge relaxation: a link whose restriction is  *)
(* below the vehicle's parameter is not relaxed, the cheapest route by     *)
(* distance over the remaining links is returned, and a request that has   *)
(* a route only when restrictions are ignored fails with                   *)
(* RestrictionViolationNoPathError.                                        *)
(***************************************************************************)
\* a segment parallel to segment 1, longer than every other segment
BypassRow(dir) ==
    [NetRow(MaxSegs + 1, dir, <<20>>) EXCEPT !.junction_id_from = 1, !.junction_id_to = 2]

SearchNetworks ==
    {[i \in 1..(MaxSegs + 1) |-> IF i <= MaxSegs THEN NetRow(i, d[i], <<>>) ELSE BypassRow(b)] :
        d \in [1..MaxSegs -> {FWD_REV_LINK, REVERSE_LINK}], b \in {FWD_REV_LINK, FORWARD_LINK}}

SearchRestrictions ==
    {r \in Restrictions : r.height \in {EmptyMap, (1 :> (TO_FROM_DIRECTION :> 0))}}

NoVehicle == [weight |-> <<>>, height |-> <<>>, width |-> <<>>, length |-> <<>>]

\* vehicle parameters in the links' units: lbs for the weight
Vehicles ==
    {NoVehicle,
     [NoVehicle EXCEPT !.weight = <<7000>>],
     [NoVehicle EXCEPT !.weight = <<5000>>],
     [NoVehicle EXCEPT !.height = <<1>>]}

\* restriction filtering: the link is traversable for the vehicle
Traversable(l, vehicle) ==
    \A kind \in {"weight", "height", "width", "length"} :
        LET r == CASE kind = "weight" -> l.weight_restriction
                   [] kind = "height" -> l.height_restriction
                   [] kind = "width"  -> l.width_restriction
                   [] OTHER           -> l.length_restriction
        IN  \/ vehicle[kind] = <<>>
            \/ r = <<>>
            \/ r[1] >= vehicle[kind][1]

\* the simple routes (sequences of link indices) that leave `at` over the
\* links of `usable` without entering a vertex of `seen`
RECURSIVE RoutesFrom(_, _, _, _)
RoutesFrom(ls, usable, at, seen) ==
    {<<>>} \cup
    UNION {{<<i>> \o r : r \in RoutesFrom(ls, usable, ls[i].end_node.id, seen \cup {ls[i].end_node.id})} :
              i \in {j \in usable : ls[j].start_node.id = at /\ ls[j].end_node.id \notin seen}}

RouteEnd(ls, o, r) == IF r = <<>> THEN o ELSE ls[r[Len(r)]].end_node.id

Routes(ls, usable, o, d) == {r \in RoutesFrom(ls, usable, o, {o}) : RouteEnd(ls, o, r) = d}

RouteDistance(ls, r) == SumSeq([i \in DOMAIN r |-> ls[r[i]].distance])

\* the outcomes of a search from vertex o to vertex d
RustMap_shortest_path(ls, o, d, vehicle) ==
    LET usable == {i \in DOMAIN ls : Traversable(ls[i], vehicle)}
        found == Routes(ls, usable, o, d)
        req == [op |-> "RustMap.shortest_path", origin_id |-> o, dest_id |-> d, vehicle |-> vehicle]
    IN  IF found # {}
        THEN {req @@ [status |-> "ok", error |-> "", route |-> r] :
                 r \in {x \in found : \A y \in found : RouteDistance(ls, x) <= RouteDistance(ls, y)}}
        ELSE IF Routes(ls, DOMAIN ls, o, d) # {}
        THEN {req @@ [status |-> "error", error |-> "RestrictionViolationNoPathError", route |-> <<>>]}
        ELSE {req @@ [status |-> "error", error |-> "NoRouteFoundError", route |-> <<>>]}

GraphNodes(ls) == {ls[i].start_node.id : i \in DOMAIN ls} \cup {ls[i].end_node.id : i \in DOMAIN ls}

InitSearch ==
    /\ segs \in SearchNetworks
    /\ restr \in SearchRestrictions
    /\ bpc = "network"
    /\ links = NoLinks
    /\ G = EmptyGraph
    /\ NetworkIdle
    /\ ConcIdle
    /\ queries = <<>>
    /\ StreamIdle
    /\ compass_map = NoMap

RustMapSearch(o, d, vehicle) ==
    /\ bpc \in {"build_rust_map", "build_rust_map_from_gdf"}
    /\ response = NoResponse
    /\ {o, d} \subseteq GraphNodes(links.graph)
    /\ response' \in RustMap_shortest_path(links.graph, o, d, vehicle)
    /\ UNCHANGED <<impl, G, updates, segs, restr, queries, links, bpc, cpc, cidx, clinks, spc, sreq, sst, reads, shop, G0, stream, data_streams, observers, compass_map>>

NextSearch ==
    \/ BuildRustMap
    \/ BuildRustMapFromGdf
    \/ \E o \in 0..NumJunctions, d \in 0..NumJunctions, vehicle \in Vehicles : RustMapSearch(o, d, vehicle)

SpecSearch == InitSearch /\ [][NextSearch]_vars

(***************************************************************************)
(* Properties of the search over a built RustMap.                          *)
(***************************************************************************)
IsRustSearchResponse == response.op = "RustMap.shortest_path"

\* the input row a link of the built graph comes from
SegmentOf(l) ==
    CHOOSE n \in DOMAIN segs :
        IF bpc = "build_rust_map" THEN l.distance = segs[n].centimeters
        ELSE l.distance = segs[n].kilometers

\* the limit the restriction tables put on link l for a kind, in the
\* link's unit; <<>> when the tables do not restrict the link
TableLimit(l, kind) ==
    LET t == segs[SegmentOf(l)]
        e == TableEntry(kind, t)
        d == LinkDirection(l, t)
    IN  IF 1 \in DOMAIN e THEN <<e[1] * UnitFactor(kind)>>
        ELSE IF d \in DOMAIN e THEN <<e[d] * UnitFactor(kind)>>
        ELSE <<>>

\* the vehicle exceeds no limit of the tables on link l
Permitted(l, vehicle) ==
    \A kind \in RestrictionKinds :
        \/ vehicle[kind] = <<>>
        \/ TableLimit(l, kind) = <<>>
        \/ TableLimit(l, kind)[1] >= vehicle[kind][1]

PermittedLinks(vehicle) ==
    {i \in DOMAIN links.graph : Permitted(links.graph[i], vehicle)}

\* C12: a returned path runs from the origin to the destination and holds
\* no link whose restriction is below the vehicle's parameter; a link the
\* tables leave unrestricted, or restrict at or above the parameter, is
\* never excluded, so the request succeeds whenever such links connect
\* the endpoints; when only links below the parameter connect them the
\* request fails with RestrictionViolationNoPathError.
C12_RestrictionFiltering ==
    IsRustSearchResponse =>
        LET ls == links.graph
            v == response.vehicle
            o == response.origin_id
            d == response.dest_id
        IN  /\ response.status = "ok"
               => /\ response.route \in Routes(ls, DOMAIN ls, o, d)
                  /\ \A i \in Range(response.route) : \A kind \in RestrictionKinds :
                         (v[kind] # <<>> /\ RestrictionOf(ls[i], kind) # <<>>)
                         => RestrictionOf(ls[i], kind)[1] >= v[kind][1]
            /\ Routes(ls, PermittedLinks(v), o, d) # {} => response.status = "ok"
            /\ (Routes(ls, PermittedLinks(v), o, d) = {} /\ Routes(ls, DOMAIN ls, o, d) # {})
               => /\ response.status = "error"
                  /\ response.error = "RestrictionViolationNoPathError"

\* a vehicle heavier than the limit of the direct link is routed over the
\* longer parallel link
C12_Witness ==
    /\ IsRustSearchResponse
    /\ response.status = "ok"
    /\ response.vehicle.weight # <<>>
    /\ response.route # <<>>
    /\ \E i \in DOMAIN links.graph :
           /\ links.graph[i].start_node.id = response.origin_id
           /\ links.graph[i].end_node.id = response.dest_id
           /\ links.graph[i].weight_restriction # <<>>
           /\ links.graph[i].weight_restriction[1] < response.vehicle.weight[1]
           /\ RouteDistance(links.graph, <<i>>) < RouteDistance(links.graph, response.route)

C12_WitnessOnlyConnection ==
    /\ IsRustSearchResponse
    /\ response.error = "RestrictionViolationNoPathError"

(***************************************************************************)
(* Properties of the link builders: direction codes.                       *)
(***************************************************************************)
\* the table with every code 9 replaced by code 1
AsCode1(gdf) ==
    [n \in DOMAIN gdf |->
        IF gdf[n].link_direction = OTHER_LINK
        THEN [gdf[n] EXCEPT !.link_direction = FWD_REV_LINK]
        ELSE gdf[n]]

\* what the builder that ran emits for the table gdf
EmittedFor(gdf) ==
    CASE bpc = "build_rust_map" -> build_rust_map_links(gdf, links.chunksize).links
      [] bpc = "build_rust_map_from_gdf" -> rust_map_links(gdf, links.node_id_mapping)
      [] OTHER -> create_edges(gdf)

\* C13: every builder treats the codes 1 and 9 alike: the links emitted
\* for a table are the links the builder emits for the same table with
\* code 1 in place of every code 9, so a segment with code 9 yields the
\* forward and the reverse link that it would yield with code 1.
C13_Codes1And9Identical ==
    bpc \in LinkBuilders => links.emitted = EmittedFor(AsCode1(segs))

RecognisedCodes == {FWD_REV_LINK, FORWARD_LINK, REVERSE_LINK, OTHER_LINK}

\* C14: a segment whose direction code is none of 1, 2, 3 and 9 still
\* yields exactly one link, the forward link, in every builder.
C14_UnrecognisedCodeForward ==
    bpc \in LinkBuilders =>
        \A n \in DOMAIN segs :
            segs[n].link_direction \notin RecognisedCodes
            => /\ Cardinality(EmittedOf(segs[n])) = 1
               /\ \A i \in EmittedOf(segs[n]) : IsForwardLink(links.emitted[i], segs[n])

(***************************************************************************)
(* Properties of the link builders: speed and grade.                       *)
(***************************************************************************)
\* the builders that store a speed on their links
SpeedBuilders == {"build_rust_map", "build_compass_edgelist"}

\* the speed link l carries, <<>> when it carries none
LinkSpeed(l) ==
    IF bpc = "build_compass_edgelist" THEN l.speed_free_flow_kph ELSE <<l.speed_kph>>

\* link l of row t runs from junction_id_from to junction_id_to
IsAlong(l, t) ==
    IF bpc = "build_compass_edgelist"
    THEN l.src_vertex_uuid = t.junction_id_from
    ELSE l.start_node.id = links.node_id_mapping[t.junction_id_from]

\* the three-tier fallback for a link of row t
ThreeTierSpeed(t, forward) ==
    LET average == IF forward THEN t.speed_average_pos ELSE t.speed_average_neg
    IN  IF ~isna(t.free_flow_speed) THEN t.free_flow_speed
        ELSE IF ~isna(average) THEN average
        ELSE <<DEFAULT_SPEED_KPH>>

\* C15: the speed of every emitted link is the segment's free-flow speed
\* when that is defined, else the average speed of the link's own
\* direction when that is defined, else the default of 40 kph.
C15_SpeedFallback ==
    bpc \in SpeedBuilders =>
        \A n \in DOMAIN segs : \A i \in EmittedOf(segs[n]) :
            LinkSpeed(links.emitted[i]) = ThreeTierSpeed(segs[n], IsAlong(links.emitted[i], segs[n]))

\* round(g * 1000) for a grade fraction of g ten-thousandths: the nearest
\* integer, a tie going to the even one
round_milli(g) ==
    LET floor == g \div 10
        rest == g % 10
    IN  IF rest < 5 THEN floor
        ELSE IF rest > 5 THEN floor + 1
        ELSE IF floor % 2 = 0 THEN floor ELSE floor + 1

\* the grade link l stores, counted in ten-thousandths of a unit: a rust
\* link stores an integer count of units, an edge of the edge list the
\* fraction it read
StoredGrade(l) ==
    IF bpc = "build_compass_edgelist" THEN l.grade ELSE 10000 * l.grade_milli

\* C16: every link stores the integer round(grade * 1000) of its own
\* direction's grade fraction, and 0 when the segment's grade is NaN; the
\* grades of the forward and the reverse link of one segment are negations
\* of each other.
C16_GradeRounded ==
    bpc \in LinkBuilders =>
        \A n \in DOMAIN segs : \A i \in EmittedOf(segs[n]) :
            LET t == segs[n]
                l == links.emitted[i]
                g == IF IsAlong(l, t) THEN t.mean_gradient_dec ELSE neg(t.mean_gradient_dec)
            IN  /\ StoredGrade(l) = (IF isna(g) THEN 0 ELSE 10000 * round_milli(g[1]))
                /\ \A j \in EmittedOf(t) :
                       IsAlong(l, t) # IsAlong(links.emitted[j], t)
                       => StoredGrade(links.emitted[j]) = -StoredGrade(l)

(***************************************************************************)
(* Properties of the link builders: vertex ids.                            *)
(***************************************************************************)
\* the vertex ids in the order the builder meets the junctions: link by
\* link as emitted, the row's junction_id_to before its junction_id_from
RECURSIVE EncounterOrder(_)
EncounterOrder(ls) ==
    IF ls = <<>> THEN <<>>
    ELSE LET l == Head(ls)
             t == segs[SegmentOf(l)]
         IN  (IF LinkDirection(l, t) = FROM_TO_DIRECTION
              THEN <<l.end_node.id, l.start_node.id>>
              ELSE <<l.start_node.id, l.end_node.id>>) \o EncounterOrder(Tail(ls))

\* every id of the sequence is, where it first occurs, the number of ids
\* that occurred before it
InEncounterOrder(ids) ==
    \A p \in DOMAIN ids : ids[p] <= Cardinality({ids[q] : q \in 1..(p - 1)})

\* C17: the junction-to-vertex-id mapping a builder ends with, over one or
\* several chunks, is injective, its ids are exactly 0 .. node_id_counter - 1,
\* and the ids follow the order in which the junctions are first
\* encountered, which makes the mapping a function of the input order.
C17_DenseVertexIds ==
    bpc \in RustBuilders =>
        LET m == links.node_id_mapping
        IN  /\ \A a \in DOMAIN m : \A b \in DOMAIN m : m[a] = m[b] => a = b
            /\ {m[a] : a \in DOMAIN m} = 0..(links.node_id_counter - 1)
            /\ InEncounterOrder(EncounterOrder(links.emitted))

C18_WitnessRust == bpc = "DisconnectedGraphError" /\ segs # <<>>

(***************************************************************************)
(* The query specification: shortest_path calls on one TomTomNetworkX      *)
(* object, update_links calls between them, and the record of every call   *)
(* with the graph it ran on and the graph it left.                         *)
(***************************************************************************)
MaxQueries == 3

\* the graph shortest_path leaves behind (lines 131-185): the method reads
\* self.G through the nearest-node lookup, nx.shortest_path and
\* get_edge_data and assigns to none of its nodes, edges or attributes
shortest_path_marks_edges(i, g, origin, destination, weight, routee_key) ==
    [g EXCEPT !.edges = [e \in DOMAIN g.edges |->
        [g.edges[e] EXCEPT !.attrs = SetItem(g.edges[e].attrs, "minutes", 0)]]]

graph_after_shortest_path(i, g, origin, destination, weight, routee_key) == g

\* a point far outside the area the junctions cover
FarCoordinate == [lat |-> 0, lon |-> 30 * (NumJunctions + 1)]

QueryRequests ==
    {[origin |-> o, destination |-> [lat |-> 0, lon |-> 3 * NumJunctions + 1],
      weight |-> w, routee_key |-> "Gasoline"] :
        o \in {[lat |-> 0, lon |-> 4], [lat |-> 0, lon |-> 7], FarCoordinate}, w \in {"TIME", "ENERGY"}}

InitQuery ==
    /\ impl = "TomTomNetworkX"
    /\ \E gdf \in ConcGdfs : \E comp \in build_graph_components(gdf) :
           G = Construct(impl, ReadGraph(impl, graph_to_file(build_graph(gdf, comp))))
    /\ response = NoResponse
    /\ updates = 0
    /\ queries = <<>>
    /\ StreamIdle
    /\ compass_map = NoMap
    /\ BuilderIdle
    /\ ConcIdle

\* road_network.shortest_path(origin, destination, weight, routee_key)
QueryCall(req) ==
    /\ response = NoResponse
    /\ Len(queries) < MaxQueries
    /\ response' = shortest_path(impl, G, req.origin, req.destination, req.weight, req.routee_key)
    /\ G' = graph_after_shortest_path(impl, G, req.origin, req.destination, req.weight, req.routee_key)
    /\ queries' = Append(queries, [request |-> req, graph |-> G, graph_after |-> G', response |-> response'])
    /\ UNCHANGED <<impl, updates, segs, restr, links, bpc, cpc, cidx, clinks, spc, sreq, sst, reads, shop, G0, stream, data_streams, observers, compass_map>>

NextQuery ==
    \/ \E req \in QueryRequests : QueryCall(req)
    \/ \E l \in UpdateLinks : UpdateLinksCall(<<l>>)
    \/ ReturnToCaller

SpecQuery == InitQuery /\ [][NextQuery]_vars

(***************************************************************************)
(* Properties of the road network: updates and queries.                    *)
(***************************************************************************)
\* the edges an update with the links ls writes: those whose key is the
\* link_id of exactly one supplied link
TouchedEdges(g, ls) ==
    {i \in DOMAIN g.edges : Cardinality(SegmentRows(ls, g.edges[i].key)) = 1}

EnergyAttrsOf(e) == [k \in RouteeKeys |-> Get(e.attrs, EnergyAttr(k), <<>>)]

\* C19: an update_links call that touches the set T of edges runs the
\* energy model only for the edges of T, and leaves the energy attributes
\* of every edge outside T as they were.
C19_EnergyOnlyForTouched ==
    [][(response.op # "update_links" /\ response'.op = "update_links" /\ response'.status = "ok")
       => LET T == TouchedEdges(G, response'.links_arg)
          IN  /\ response'.predicted \subseteq T
              /\ \A i \in DOMAIN G.edges \ T :
                     EnergyAttrsOf(G'.edges[i]) = EnergyAttrsOf(G.edges[i])]_vars

SweepSteps == 6

SweepKinds == {"trip_energy_electric", "trip_distance"}

\* the weights of step i of the sweep, counted in (steps - 1)-ths:
\* p = i / (steps - 1), trip_time p and the other variable 1 - p
sweep_weights_swapped(i, kind) ==
    [v \in {"trip_time", "trip_energy_electric", "trip_distance"} |->
        IF v = "trip_time" THEN (SweepSteps - 1) - i
        ELSE IF v = kind THEN i
        ELSE 0]

sweep_weights(i, kind) ==
    [v \in {"trip_time", "trip_energy_electric", "trip_distance"} |->
        IF v = "trip_time" THEN i
        ELSE IF v = kind THEN (SweepSteps - 1) - i
        ELSE 0]

\* the rate that converts a variable's raw unit before the weight applies
SweepRates == [trip_time |-> 2, trip_energy_electric |-> 3, trip_distance |-> 1]

SweepDeltas ==
    {[trip_time |-> 1, trip_energy_electric |-> 4, trip_distance |-> 3],
     [trip_time |-> 3, trip_energy_electric |-> 1, trip_distance |-> 1],
     [trip_time |-> 2, trip_energy_electric |-> 2, trip_distance |-> 2]}

\* the link list of a graph store over the vertices 0, 1, 2: links 0 -> 1,
\* 1 -> 2 and two parallel links 0 -> 2
SweepLink(u, v, delta) ==
    [start_node |-> [id |-> u], end_node |-> [id |-> v], delta |-> delta]

SweepGraphs ==
    {<<SweepLink(0, 1, a), SweepLink(1, 2, b), SweepLink(0, 2, c), SweepLink(0, 2, d)>> :
        a \in SweepDeltas, b \in SweepDeltas, c \in SweepDeltas, d \in SweepDeltas}

\* the accumulated trip state of a route
TraversalSummary(ls, r) ==
    [v \in {"trip_time", "trip_energy_electric", "trip_distance"} |->
        SumSeq([i \in DOMAIN r |-> ls[r[i]].delta[v]])]

\* sum over the variables of weights[v] * rate[v] * delta[v]
ScalarCost(delta, weights) ==
    weights["trip_time"] * SweepRates["trip_time"] * delta["trip_time"]
    + weights["trip_energy_electric"] * SweepRates["trip_energy_electric"] * delta["trip_energy_electric"]
    + weights["trip_distance"] * SweepRates["trip_distance"] * delta["trip_distance"]

\* the routes app.run can return for the weights: those of least cost
CompassApp_run(ls, o, d, weights) ==
    LET found == Routes(ls, DOMAIN ls, o, d)
    IN  {r \in found : \A x \in found :
            ScalarCost(TraversalSummary(ls, r), weights) <= ScalarCost(TraversalSummary(ls, x), weights)}

InitSweep ==
    /\ impl = "CompassApp"
    /\ G \in SweepGraphs
    /\ response = NoResponse
    /\ updates = 0
    /\ queries = <<>>
    /\ StreamIdle
    /\ compass_map = NoMap
    /\ BuilderIdle
    /\ ConcIdle

\* one iteration of the test's loop: query with the step's weights, append
\* the result's traversal summary to weight_results
SweepStep(kind) ==
    /\ impl = "CompassApp"
    /\ Len(queries) < SweepSteps
    /\ queries # <<>> => queries[1].kind = kind
    /\ \E r \in CompassApp_run(G, 0, 2, sweep_weights(Len(queries), kind)) :
           queries' = Append(queries,
               [kind |-> kind, weights |-> sweep_weights(Len(queries), kind), route |-> r,
                summary |-> TraversalSummary(G, r)])
    /\ UNCHANGED <<impl, G, response, updates, segs, restr, links, bpc, cpc, cidx, clinks, spc, sreq, sst, reads, shop, G0, stream, data_streams, observers, compass_map>>

NextSweep == \E kind \in SweepKinds : SweepStep(kind)

SpecSweep == InitSweep /\ [][NextSweep]_vars

CoordinateOf(g, n) == [lat |-> g.lat[n], lon |-> g.lon[n]]

\* coord is the coordinate of a vertex of g nearest to the requested point
IsNearestCoordinate(g, coord, requested) ==
    \E n \in Range(g.nodes) : IsNearest(g, n, requested) /\ coord = CoordinateOf(g, n)

\* C22: a returned route starts at the coordinate of the graph vertex
\* nearest to the requested origin and ends at the coordinate of the vertex
\* nearest to the requested destination; the vertices a search ran between
\* are vertices of the graph, the nearest ones to the requested points.
C22_RouteEndsSnapped ==
    IsSearchResponse =>
        /\ response.status = "ok"
           => /\ response.route # <<>>
              /\ IsNearestCoordinate(G, response.route[1], response.origin)
              /\ IsNearestCoordinate(G, Last(response.route), response.destination)
        /\ response.searched
           => /\ IsNearest(G, response.origin_id, response.origin)
              /\ IsNearest(G, response.dest_id, response.destination)

\* a route was returned for an origin and a destination that are not
\* vertices of the graph and snap to different vertices
C22_Witness ==
    /\ IsSearchResponse
    /\ response.status = "ok"
    /\ Len(response.route) > 1
    /\ \A n \in Range(G.nodes) : CoordinateOf(G, n) \notin {response.origin, response.destination}
    /\ response.route[1] # Last(response.route)

\* the square of the largest distance between two vertices of g
SqExtent(g) ==
    CHOOSE x \in {SqDist(g, n, CoordinateOf(g, m)) : n \in Range(g.nodes), m \in Range(g.nodes)} :
        \A n \in Range(g.nodes), m \in Range(g.nodes) : SqDist(g, n, CoordinateOf(g, m)) <= x

\* no vertex of g lies within the graph's own extent of the point
IsDistant(g, coord) == \A n \in Range(g.nodes) : SqDist(g, n, coord) > SqExtent(g)

\* C23: a query whose origin or destination has no vertex within the
\* distance threshold (here: farther from every vertex than the graph is
\* wide) fails with an error and returns no route.
C23_DistantPointRejected ==
    \A i \in DOMAIN queries :
        (IsDistant(queries[i].graph, queries[i].request.origin)
         \/ IsDistant(queries[i].graph, queries[i].request.destination))
        => /\ queries[i].response.status = "error"
           /\ queries[i].response.route = <<>>

(***************************************************************************)
(* Properties of the road network: the frame of an update.                 *)
(***************************************************************************)
\* the edge attributes update_links may write
UpdatedAttrs == {"kph", "minutes"} \cup {EnergyAttr(k) : k \in RouteeKeys}

\* C24: an update_links call leaves the vertices, their coordinates, the
\* edges with their endpoints and keys, and every attribute other than
\* kph, minutes and energy_<key> as they were; an edge whose key is the
\* link_id of no supplied link, or of more than one, keeps its kph and
\* minutes.
C24_UpdateFrame ==
    [][(response.op # "update_links" /\ response'.op = "update_links")
       => /\ G'.nodes = G.nodes
          /\ G'.lat = G.lat
          /\ G'.lon = G.lon
          /\ DOMAIN G'.edges = DOMAIN G.edges
          /\ \A i \in DOMAIN G.edges :
                 LET old == G.edges[i]
                     new == G'.edges[i]
                 IN  /\ [new EXCEPT !.attrs = old.attrs] = old
                     /\ DOMAIN new.attrs \subseteq DOMAIN old.attrs \cup UpdatedAttrs
                     /\ \A a \in DOMAIN old.attrs \ UpdatedAttrs :
                            a \in DOMAIN new.attrs /\ new.attrs[a] = old.attrs[a]
                     /\ Cardinality(SegmentRows(response'.links_arg, old.key)) # 1
                        => /\ Get(new.attrs, "kph", <<>>) = Get(old.attrs, "kph", <<>>)
                           /\ Get(new.attrs, "minutes", <<>>) = Get(old.attrs, "minutes", <<>>)]_vars

\* an update was applied whose two links name the same edge with different
\* speeds, next to edges that no link names
C24_Witness ==
    /\ response.op = "update_links"
    /\ response.status = "ok"
    /\ Len(response.links_arg) = 2
    /\ response.links_arg[1].link_id = response.links_arg[2].link_id
    /\ response.links_arg[1].attributes # response.links_arg[2].attributes
    /\ \E i \in DOMAIN G.edges : G.edges[i].key = response.links_arg[1].link_id
    /\ \E i \in DOMAIN G.edges : G.edges[i].key # response.links_arg[1].link_id

(***************************************************************************)
(* compass/datastreams/historic_speeds_tomtom.py                           *)
(* HistoricSpeedsTomTomStream.update(road_network): a job is posted to the *)
(* traffic-stats service, its status is polled, the result is downloaded   *)
(* and written into the edges of road_network.G.                           *)
(* A feature of the result is [segmentId, harmonicAverageSpeed,            *)
(* speedLimit]; the remote service's answers are inputs of the actions.    *)
(***************************************************************************)
\* timeout_steps = 50 (line 107)
timeout_steps == 50

\* compass.utils.units: HOURS_TO_MINUTES, and the reciprocal of
\* METERS_TO_KILOMETERS
HOURS_TO_MINUTES == 60
METERS_PER_KILOMETER == 1000

\* IEEE infinity, the quotient numpy gives for a positive float divided by a
\* numpy zero; it stands above every finite number of minutes of the model
inf == 1000000000

\* road_network.bbox, read by _post_query (lines 56-57): only
\* TomTomRoadNetwork.__init__ sets it
has_bbox(i) == i = "TomTomRoadNetwork"

\* road_network.update(), called on line 213: only TomTomRoadNetwork has it
road_network_update(i, g) ==
    IF i = "TomTomRoadNetwork"
    THEN [graph |-> TomTomRoadNetwork_compute_energy(g), error |-> ""]
    ELSE [graph |-> g, error |-> "AttributeError"]

\* gdf[gdf["segmentId"] == k] (line 185)
FeatureRows(fs, k) == {j \in DOMAIN fs : fs[j].segmentId = k}

\* lines 193-198: the reported speed, or the speed limit when the reported
\* speed is below 1 or above the limit
new_speed_kph(f) ==
    IF f.harmonicAverageSpeed < 1 \/ f.harmonicAverageSpeed > f.speedLimit
    THEN f.speedLimit
    ELSE f.harmonicAverageSpeed

\* lines 205-209: (meters * METERS_TO_KILOMETERS) / kph * HOURS_TO_MINUTES;
\* the lengths and speeds of the model make the quotient whole
new_minutes(meters, kph) == (meters * HOURS_TO_MINUTES) \div (METERS_PER_KILOMETER * kph)

WriteSpeed(e, kph, minutes) ==
    [e EXCEPT !.attrs = SetItem(SetItem(e.attrs, "kph", kph), "minutes", minutes)]

\* the body of the loop over G.edges (lines 184-209).  Dividing by a speed
\* of zero raises ZeroDivisionError when the speed limit is a Python number
\* and yields inf when it is a numpy scalar: zero_division names which
update_edge_speed(e, fs, zero_division) ==
    LET segment == FeatureRows(fs, e.key)
    IN  IF Cardinality(segment) < 1 THEN [edge |-> e, error |-> ""]
        ELSE IF Cardinality(segment) > 1 THEN [edge |-> e, error |-> ""]
        ELSE LET kph == new_speed_kph(fs[CHOOSE j \in segment : TRUE])
                 meters == e.attrs["meters"]
             IN  IF meters = 0 THEN [edge |-> e, error |-> ""]
                 ELSE IF kph = 0
                 THEN IF zero_division = "raise"
                      THEN [edge |-> e, error |-> "ZeroDivisionError"]
                      ELSE [edge |-> WriteSpeed(e, kph, inf), error |-> ""]
                 ELSE [edge |-> WriteSpeed(e, kph, new_minutes(meters, kph)), error |-> ""]

\* the loop of lines 184-209 from edge i on: an exception leaves the edges
\* visited before it written
RECURSIVE update_edge_speeds(_, _, _, _)
update_edge_speeds(es, i, fs, zero_division) ==
    IF i > Len(es) THEN [edges |-> es, error |-> ""]
    ELSE LET r == update_edge_speed(es[i], fs, zero_division)
         IN  IF r.error # "" THEN [edges |-> es, error |-> r.error]
             ELSE update_edge_speeds([es EXCEPT ![i] = r.edge], i + 1, fs, zero_division)

apply_features_stale(i, g, fs, zero_division) ==
    LET r == update_edge_speeds(g.edges, 1, fs, zero_division)
    IN  [graph |-> [g EXCEPT !.edges = r.edges], error |-> r.error,
         result |-> IF r.error = "" THEN <<1>> ELSE <<>>]

\* lines 181-217: the edges are written, then road_network.update() is
\* called and 1 is returned
apply_features(i, g, fs, zero_division) ==
    LET r == update_edge_speeds(g.edges, 1, fs, zero_division)
        written == [g EXCEPT !.edges = r.edges]
        u == road_network_update(i, written)
    IN  IF r.error # "" THEN [graph |-> written, error |-> r.error, result |-> <<>>]
        ELSE IF u.error # "" THEN [graph |-> u.graph, error |-> u.error, result |-> <<>>]
        ELSE [graph |-> u.graph, error |-> "", result |-> <<1>>]

\* _download_result (lines 88-105): None, or the features after the header
download_result(d) ==
    IF d.status_code # 200 THEN <<>>
    ELSE IF d.features = <<>> THEN <<>>
    ELSE <<Tail(d.features)>>

poll_outcome_any_state(t, s, d) ==
    IF s.status_code # 200 THEN [kind |-> "return", features |-> <<>>]
    ELSE IF s.jobState = "" THEN [kind |-> "return", features |-> <<>>]
    ELSE [kind |-> "return", features |-> download_result(d)]

\* one pass of the while loop (lines 112-142) for status response s and
\* download response d: the loop returns, or sleeps and goes round again
poll_outcome(t, s, d) ==
    IF s.status_code # 200 THEN [kind |-> "return", features |-> <<>>]
    ELSE IF s.jobState = "" THEN [kind |-> "return", features |-> <<>>]
    ELSE IF s.jobState = "DONE"
    THEN IF ~s.urls THEN [kind |-> "return", features |-> <<>>]
         ELSE [kind |-> "return", features |-> download_result(d)]
    ELSE [kind |-> "sleep", sleep_time |-> t * 10]

\* lines 154-162: the network-type check
type_check(g) ==
    IF g.compass_network_type = "none" THEN ""
    ELSE IF g.compass_network_type # "tomtom" THEN "IOError"
    ELSE ""

\* lines 176-217 once _get_query_results has returned features
update_with_features(i, g, features, zero_division) ==
    IF features = <<>> \/ features = <<<<>>>>
    THEN [graph |-> g, error |-> "", result |-> <<0>>]
    ELSE apply_features(i, g, features[1], zero_division)

\* the segment tables of the historic-speed runs: a one-way ring whose first
\* two segments are of zero length, flat or downhill
StreamSegAttrs ==
    {[meters |-> 0, minutes |-> 0, kph |-> 1, mean_grad |-> 0],
     [meters |-> 1000, minutes |-> 60, kph |-> 1, mean_grad |-> 0],
     [meters |-> 3000, minutes |-> 90, kph |-> 2, mean_grad |-> -2]}

StreamGdfs ==
    {[i \in 1..NumJunctions |->
        Row(i, i, (i % NumJunctions) + 1, "FT",
            CASE i = 1 -> a1
              [] i = 2 -> a2
              [] OTHER -> [meters |-> 1000, minutes |-> 60, kph |-> 1, mean_grad |-> 0])]
     : a1 \in StreamSegAttrs, a2 \in StreamSegAttrs}

\* the pickles a network object is built on: what the build script of the
\* class writes and, for TomTomRoadNetwork, which checks no type, also a
\* graph without the compass_network_type entry
StreamGraphs(i) ==
    LET built == {graph_to_file(build_graph(gdf, comp)) :
                     gdf \in StreamGdfs, comp \in UNION {build_graph_components(x) : x \in StreamGdfs}}
        typed == {g \in built : g.edges # <<>>}
    IN  {ReadGraph(i, g) : g \in typed}
        \cup (IF i = "TomTomRoadNetwork"
              THEN {[g EXCEPT !.compass_network_type = "none"] : g \in typed}
              ELSE {})

\* the answer to the job submission: status code and jobId ("" when absent)
PostResponses ==
    {[status_code |-> 200, jobId |-> "job"],
     [status_code |-> 200, jobId |-> ""],
     [status_code |-> 500, jobId |-> ""]}

\* the answer to a status request: status code, jobState ("" when absent)
\* and whether urls are listed
StatusResponses ==
    {[status_code |-> 500, jobState |-> "", urls |-> FALSE],
     [status_code |-> 200, jobState |-> "", urls |-> FALSE],
     [status_code |-> 200, jobState |-> "RUNNING", urls |-> FALSE],
     [status_code |-> 200, jobState |-> "DONE", urls |-> FALSE],
     [status_code |-> 200, jobState |-> "DONE", urls |-> TRUE]}

Feature(id, speed, limit) == [segmentId |-> id, harmonicAverageSpeed |-> speed, speedLimit |-> limit]

\* the header the service returns as the first feature
HeaderFeature == Feature(0, 0, 0)

FeatureLists ==
    {<<Feature(id, speed, limit)>> : id \in {1, 2}, speed \in {0, 2, 5}, limit \in {0, 3}}
    \cup {<<Feature(1, 2, 3), Feature(2, 5, 3)>>,
          <<Feature(1, 2, 3), Feature(2, 2, 0)>>,
          <<Feature(1, 2, 3), Feature(1, 5, 3)>>,
          <<Feature(99, 2, 3)>>}

\* the answer to the download request: status code and the features
DownloadResponses ==
    {[status_code |-> 500, features |-> <<>>],
     [status_code |-> 200, features |-> <<>>],
     [status_code |-> 200, features |-> <<HeaderFeature>>]}
    \cup {[status_code |-> 200, features |-> <<HeaderFeature>> \o fs] : fs \in FeatureLists}

ZeroDivisions == {"raise", "inf"}

InitStream ==
    /\ impl \in Impls
    /\ G \in {Construct(impl, g) : g \in StreamGraphs(impl)}
    /\ response = NoResponse
    /\ updates = 0
    /\ BuilderIdle
    /\ ConcIdle
    /\ queries = <<>>
    /\ StreamIdle
    /\ compass_map = NoMap

update_start_ignores_status(i, g, post) ==
    IF type_check(g) # ""
    THEN [NoStream EXCEPT !.pc = "raised", !.error = type_check(g), !.before = g]
    ELSE IF ~has_bbox(i)
    THEN [NoStream EXCEPT !.pc = "raised", !.error = "AttributeError", !.before = g]
    ELSE [NoStream EXCEPT !.pc = "polling", !.t = 1, !.post = post, !.before = g]

\* update, lines 153-176: the type check, the job submission and the entry
\* into _get_query_results (lines 107-110)
update_start(i, g, post) ==
    IF type_check(g) # ""
    THEN [NoStream EXCEPT !.pc = "raised", !.error = type_check(g), !.before = g]
    ELSE IF ~has_bbox(i)
    THEN [NoStream EXCEPT !.pc = "raised", !.error = "AttributeError", !.before = g]
    ELSE IF post.status_code # 200
    THEN [NoStream EXCEPT !.pc = "returned", !.result = <<0>>, !.post = post, !.before = g]
    ELSE IF post.jobId = ""
    THEN [NoStream EXCEPT !.pc = "returned", !.result = <<0>>, !.post = post, !.before = g]
    ELSE [NoStream EXCEPT !.pc = "polling", !.t = 1, !.post = post, !.before = g]

\* stream.update(road_network) is called and runs up to its first status
\* request
StreamUpdateCall(post) ==
    /\ stream.pc = "idle"
    /\ response = NoResponse
    /\ updates < MaxUpdates
    /\ updates' = updates + 1
    /\ stream' = update_start(impl, G, post)
    /\ UNCHANGED <<impl, G, response, segs, restr, queries, links, bpc, cpc, cidx, clinks, spc, sreq, sst, reads, shop, G0, data_streams, observers, compass_map>>

\* one pass of the polling loop; when the loop returns, the rest of update
\* runs to its end
StreamPoll(s, d, zero_division) ==
    /\ stream.pc = "polling"
    /\ stream.t < timeout_steps
    /\ LET o == poll_outcome(stream.t, s, d)
           done == s.status_code = 200 /\ s.jobState = "DONE"
       IN  IF o.kind = "sleep"
           THEN /\ stream' = [stream EXCEPT !.t = @ + 1, !.requests = @ + 1,
                                            !.sleeps = Append(@, o.sleep_time), !.status = s]
                /\ G' = G
           ELSE LET r == update_with_features(impl, G, o.features, zero_division)
                IN  /\ stream' = [stream EXCEPT
                           !.pc = IF r.error # "" THEN "raised" ELSE "returned",
                           !.requests = @ + 1, !.status = s, !.done_seen = done,
                           !.download = IF done /\ s.urls THEN d ELSE <<>>,
                           !.features = o.features, !.result = r.result, !.error = r.error]
                    /\ G' = r.graph
    /\ UNCHANGED <<impl, response, updates, segs, restr, queries, links, bpc, cpc, cidx, clinks, spc, sreq, sst, reads, shop, G0, data_streams, observers, compass_map>>

\* the loop condition fails: _get_query_results returns None and update
\* returns 0
StreamTimeout ==
    /\ stream.pc = "polling"
    /\ ~(stream.t < timeout_steps)
    /\ stream' = [stream EXCEPT !.pc = "returned", !.result = <<0>>]
    /\ UNCHANGED <<impl, G, response, updates, segs, restr, queries, links, bpc, cpc, cidx, clinks, spc, sreq, sst, reads, shop, G0, data_streams, observers, compass_map>>

\* the caller takes the outcome of update
StreamReturn ==
    /\ stream.pc \in {"returned", "raised"}
    /\ stream' = NoStream
    /\ UNCHANGED <<impl, G, response, updates, segs, restr, queries, links, bpc, cpc, cidx, clinks, spc, sreq, sst, reads, shop, G0, data_streams, observers, compass_map>>

NextStream ==
    \/ \E post \in PostResponses : StreamUpdateCall(post)
    \/ \E s \in StatusResponses, d \in DownloadResponses, z \in ZeroDivisions : StreamPoll(s, d, z)
    \/ StreamTimeout
    \/ StreamReturn
    \/ \E l \in UpdateLinks : stream.pc = "idle" /\ UpdateLinksCall(<<l>>)
    \/ ReturnToCaller

SpecStream == InitStream /\ [][NextStream]_vars

\* the polling loop is not abandoned: a pass or the loop's exit is taken
SpecStreamLive ==
    SpecStream /\ WF_vars(StreamTimeout)
               /\ WF_vars(\E s \in StatusResponses, d \in DownloadResponses, z \in ZeroDivisions : StreamPoll(s, d, z))

(***************************************************************************)
(* Properties of the historic-speed update.                                *)
(***************************************************************************)
\* an update has just completed: stream.update returned 1, or update_links
\* returned
CompletedUpdate ==
    \/ stream.pc = "returned" /\ stream.result = <<1>>
    \/ response.op = "update_links" /\ response.status = "ok"

\* the prediction of model k for the current kph, meters and grade of edge e
PredictionOf(e, k) == predict(k, e.attrs["kph"], e.attrs["meters"], e.attrs["grade"])

C25_WitnessUpdateLinks ==
    /\ response.op = "update_links" /\ response.status = "ok"
    /\ \E i \in DOMAIN G.edges :
           /\ G.edges[i].attrs["kph"] = 3
           /\ PredictionOf(G.edges[i], "Electric") < 0

\* the speeds came down: the job was DONE, the download answered 200 and
\* held features after the header
SpeedsDownloaded ==
    /\ stream.done_seen
    /\ stream.download # <<>>
    /\ stream.download.status_code = 200
    /\ Len(stream.download.features) > 1

\* the speed the downloaded features hold for segment k, when exactly one
\* feature names it
ReportedFor(k) ==
    LET fs == Tail(stream.download.features)
        rows == {j \in DOMAIN fs : fs[j].segmentId = k}
    IN  IF Cardinality(rows) # 1 THEN <<>>
        ELSE LET f == fs[CHOOSE j \in rows : TRUE]
             IN  IF f.harmonicAverageSpeed >= 1 /\ f.harmonicAverageSpeed <= f.speedLimit
                 THEN <<f.harmonicAverageSpeed>>
                 ELSE <<f.speedLimit>>

C26_WitnessApplied ==
    /\ stream.pc = "returned" /\ stream.result = <<1>>
    /\ Cardinality({i \in DOMAIN G.edges : G.edges[i].attrs["kph"] # stream.before.edges[i].attrs["kph"]}) = 2

\* the status response that ended the polling loop returned no features
EndsWithoutFeatures(s) ==
    \/ s.status_code # 200
    \/ s.jobState = ""
    \/ s.jobState = "DONE" /\ ~s.urls

\* C27: the polling loop terminates; it issues at most 49 status requests;
\* features are returned only after a response with jobState DONE; a
\* non-200 status response, one without jobState, or DONE without urls ends
\* the loop on the spot without features; when the job never reaches DONE
\* within the budget no features are returned; the wait before the t-th
\* retry is 10*t seconds.
C27_PollingTerminates ==
    /\ [](/\ stream.requests <= 49
          /\ stream.features # <<>> => stream.done_seen
          /\ (stream.status # <<>> /\ EndsWithoutFeatures(stream.status)) =>
                 (stream.pc # "polling" /\ stream.features = <<>>)
          /\ (stream.pc = "returned" /\ stream.post.status_code = 200 /\ stream.post.jobId # ""
                  /\ ~stream.done_seen) =>
                 (stream.features = <<>> /\ stream.result = <<0>>)
          /\ \A t \in DOMAIN stream.sleeps : stream.sleeps[t] = 10 * t)
    /\ (stream.pc = "polling") ~> (stream.pc # "polling")

\* the polling budget ran out: 49 status requests, 49 waits, no features
C27_Witness ==
    /\ stream.pc = "returned"
    /\ stream.requests = 49
    /\ ~stream.done_seen
    /\ stream.features = <<>>
    /\ stream.result = <<0>>

\* features were returned at the third status request
C27_WitnessDone ==
    /\ stream.pc = "returned"
    /\ stream.requests = 3
    /\ stream.sleeps = <<10, 20>>
    /\ stream.features # <<>>

\* the speed limits the downloaded features hold for segment k
LimitsFor(k) ==
    LET fs == Tail(stream.download.features)
    IN  {fs[j].speedLimit : j \in {x \in DOMAIN fs : fs[x].segmentId = k}}

\* C28: in a historic-speed update an edge of zero distance keeps its kph
\* and minutes, the travel time is never computed by a division by zero,
\* and every edge that is updated gets a speed of at least 1 kph and at most
\* the segment's speed limit, with minutes = 60 * (meters / 1000) / kph.
C28_SpeedUpdateSafe ==
    (stream.pc \in {"returned", "raised"} /\ stream.download # <<>> /\ stream.download.features # <<>>) =>
        /\ stream.error # "ZeroDivisionError"
        /\ \A i \in DOMAIN G.edges :
               LET new == G.edges[i].attrs
                   old == stream.before.edges[i].attrs
               IN  /\ new["meters"] = 0 => (new["kph"] = old["kph"] /\ new["minutes"] = old["minutes"])
                   /\ (new["kph"] # old["kph"] \/ new["minutes"] # old["minutes"]) =>
                          /\ new["kph"] >= 1
                          /\ \A limit \in LimitsFor(G.edges[i].key) : new["kph"] <= limit
                          /\ new["minutes"] * METERS_PER_KILOMETER * new["kph"] = HOURS_TO_MINUTES * new["meters"]

(***************************************************************************)
(* RoadNetwork.add_data_stream and the data_streams attribute              *)
(* Several network objects live in one process: data_streams is declared   *)
(* in the class body, so every instance of a class reads the same list.    *)
(***************************************************************************)
\* the network objects of a run: the last one is an OSMNetworkX, the others
\* are TomTomNetworkX
NumInstances == 3
Instances == 1..NumInstances

InstanceClass(x) == IF x = NumInstances THEN "OSMNetworkX" ELSE "TomTomNetworkX"

\* self.data_streams: no instance attribute shadows the class attribute
instance_data_streams(ds, x) == ds[InstanceClass(x)]

\* data_stream.bind_to(self.update_links): the callback joins the stream's
\* observers
bind_to(obs, s, x) == [obs EXCEPT ![s] = Append(@, x)]

\* self.data_streams.append(data_stream): the list found through self is
\* the class's list
data_streams_append(ds, x, s) == [ds EXCEPT ![InstanceClass(x)] = Append(@, s)]

\* road_network.add_data_stream(data_stream) on instance x; OSMNetworkX
\* raises instead
AddDataStream(x, s) ==
    /\ stream.pc = "idle"
    /\ Len(data_streams["TomTomNetworkX"]) < MaxStreams
    /\ IF InstanceClass(x) = "OSMNetworkX"
       THEN /\ UNCHANGED <<data_streams, observers>>
            /\ response' = [NoResponse EXCEPT !.op = "add_data_stream", !.status = "error",
                                              !.error = "TypeError"]
       ELSE /\ observers' = bind_to(observers, s, x)
            /\ data_streams' = data_streams_append(data_streams, x, s)
            /\ response' = [NoResponse EXCEPT !.op = "add_data_stream", !.status = "ok"]
    /\ UNCHANGED <<impl, G, updates, segs, restr, queries, links, bpc, cpc, cidx, clinks, spc, sreq, sst, reads, shop, G0, stream, compass_map>>

InitStreams ==
    /\ impl = "TomTomNetworkX"
    /\ G \in {Construct(impl, g) : g \in StreamGraphs(impl)}
    /\ response = NoResponse
    /\ updates = 0
    /\ BuilderIdle
    /\ ConcIdle
    /\ queries = <<>>
    /\ StreamIdle
    /\ compass_map = NoMap

NextStreams == \E x \in Instances, s \in StreamIds : AddDataStream(x, s)

SpecStreams == InitStreams /\ [][NextStreams]_vars

\* the streams add_data_stream was called with on instance x: each call
\* bound x's update_links to its stream
AddedTo(x) == {s \in StreamIds : x \in Range(observers[s])}

\* C29: after any sequence of add_data_stream calls on several instances,
\* the data_streams of an instance holds exactly the streams added to that
\* instance, each bound to that instance's update_links, and no stream added
\* to another instance.
C29_StreamsOwnedByInstance ==
    \A x \in Instances : Range(instance_data_streams(data_streams, x)) = AddedTo(x)

(***************************************************************************)
(* CompassMap.compute_energy                                               *)
(* nrel/routee/compass/compass_map.py (over NxMap roads) and               *)
(* compass/compass_map.py (over RoadMap links).  A road is                 *)
(* [road_id, metadata]; a grade is <<g>>, or <<>> for NaN; an attribute    *)
(* that is None is absent from metadata.  Miles stand in the unit in       *)
(* which KILOMETERS_TO_MILES is 1.                                         *)
(***************************************************************************)
MapImpls == {"nrel.CompassMap", "compass.CompassMap"}

MaxRoads == 2

\* pd.isna(grade): grade = 0.0
grade_or_zero(grade) == IF grade = <<>> THEN 0 ELSE grade[1]

\* speed_mph = dist_mi / time_h.  nrel lines 51-54: time_minutes is
\* minutes / 60 and time_h is time_minutes / 60; compass line 14: time_h is
\* minutes / 60.  The inputs make the quotients whole.
speed_mph(i, dist_mi, minutes) ==
    IF i = "nrel.CompassMap"
    THEN (dist_mi * 60 * 60) \div minutes
    ELSE (dist_mi * 60) \div minutes

\* the first statement of the loop body that raises for road r, <<>> when
\* none does: nrel lines 46-58, compass lines 13-14
road_error(i, r) ==
    IF i = "nrel.CompassMap"
    THEN IF "kilometers" \notin DOMAIN r.metadata
         THEN <<"ValueError", r.road_id, "kilometers">>
         ELSE IF "minutes" \notin DOMAIN r.metadata
         THEN <<"TypeError", r.road_id, "minutes">>
         ELSE IF "grade" \notin DOMAIN r.metadata
         THEN <<"ValueError", r.road_id, "grade">>
         ELSE <<>>
    ELSE IF "kilometers" \notin DOMAIN r.metadata
         THEN <<"KeyError", r.road_id, "kilometers">>
         ELSE IF "minutes" \notin DOMAIN r.metadata
         THEN <<"KeyError", r.road_id, "minutes">>
         ELSE <<>>

\* the row appended to c for road r (nrel lines 62-65, compass lines 15-21)
road_row(i, r) ==
    [road_id |-> r.road_id,
     speed |-> speed_mph(i, r.metadata["kilometers"], r.metadata["minutes"]),
     grade |-> IF i = "nrel.CompassMap" THEN grade_or_zero(r.metadata["grade"]) ELSE 0,
     distance |-> r.metadata["kilometers"]]

\* set_road_attributes for every model key: metadata[model_key] = gge
RECURSIVE set_model_attributes(_, _, _)
set_model_attributes(metadata, row, keys) ==
    IF keys = {} THEN metadata
    ELSE LET k == CHOOSE x \in keys : TRUE
         IN  set_model_attributes(
                 SetItem(metadata, k, predict(k, row.speed, row.distance, row.grade)),
                 row, keys \ {k})

\* compute_energy: the loop over the roads builds every row, or raises at
\* the first road it cannot read, before any attribute is set; then every
\* model's prediction is set on every road and the collection and its keys
\* are stored
compute_energy(i, cm, keys) ==
    LET bad == {j \in DOMAIN cm.roads : road_error(i, cm.roads[j]) # <<>>}
    IN  IF bad # {}
        THEN [map |-> cm, error |-> road_error(i, cm.roads[CHOOSE j \in bad : \A b \in bad : j <= b])]
        ELSE [map |-> [roads |-> [j \in DOMAIN cm.roads |->
                          [cm.roads[j] EXCEPT !.metadata =
                              set_model_attributes(@, road_row(i, cm.roads[j]), keys)]],
                       routee_model_collection |-> <<keys>>,
                       routee_model_keys |-> <<keys>>],
              error |-> <<>>]

\* the metadata a road can carry: kilometers, minutes and grade, each
\* possibly missing, the grade possibly NaN
RoadMetadata ==
    {[n \in names |-> CASE n = "kilometers" -> 2
                        [] n = "minutes" -> m
                        [] OTHER -> g]
     : names \in SUBSET {"kilometers", "minutes", "grade"}, m \in {30, 60}, g \in {<<>>, <<-2>>}}

Maps ==
    {[NoMap EXCEPT !.roads = [j \in 1..Len(ms) |-> [road_id |-> j, metadata |-> ms[j]]]]
     : ms \in SeqsUpTo(RoadMetadata, MaxRoads) \ {<<>>}}

\* the model collections compute_energy is called with
ModelCollections == {RouteeKeys, {"Gasoline"}}

InitMap ==
    /\ impl \in MapImpls
    /\ compass_map \in Maps
    /\ G = EmptyGraph
    /\ response = NoResponse
    /\ updates = 0
    /\ BuilderIdle
    /\ ConcIdle
    /\ queries = <<>>
    /\ StreamIdle

\* compass_map.compute_energy(routee_model_collection)
MapComputeEnergy(keys) ==
    /\ updates < MaxUpdates
    /\ updates' = updates + 1
    /\ LET r == compute_energy(impl, compass_map, keys)
       IN  /\ compass_map' = r.map
           /\ response' = [op |-> "compute_energy", status |-> IF r.error = <<>> THEN "ok" ELSE "error",
                           error |-> r.error, before |-> compass_map, keys |-> keys]
    /\ UNCHANGED <<impl, G, segs, restr, queries, links, bpc, cpc, cidx, clinks, spc, sreq, sst, reads, shop, G0, stream, data_streams, observers>>

NextMap == \E keys \in ModelCollections : MapComputeEnergy(keys)

SpecMap == InitMap /\ [][NextMap]_vars

\* the roads that lack one of kilometers, minutes, grade
RoadsLacking(cm) ==
    {j \in DOMAIN cm.roads : ~({"kilometers", "minutes", "grade"} \subseteq DOMAIN cm.roads[j].metadata)}

\* C30: compute_energy validates every road before changing anything: if a
\* road lacks kilometers, minutes or grade it raises ValueError naming that
\* road, sets no energy attribute on any road and leaves
\* routee_model_collection and routee_model_keys unset; a NaN grade counts
\* as 0; on success every road has one energy attribute per model key,
\* computed from speed = miles / hours with hours = minutes / 60.
C30_ComputeEnergyValidates ==
    response.op = "compute_energy" =>
        IF RoadsLacking(response.before) # {}
        THEN /\ response.error # <<>>
             /\ response.error[1] = "ValueError"
             /\ response.error[2] \in {response.before.roads[j].road_id : j \in RoadsLacking(response.before)}
             /\ compass_map = response.before
        ELSE /\ response.error = <<>>
             /\ compass_map.routee_model_keys = <<response.keys>>
             /\ \A j \in DOMAIN compass_map.roads : \A k \in response.keys :
                    LET md == response.before.roads[j].metadata
                        miles == md["kilometers"]
                    IN  /\ k \in DOMAIN compass_map.roads[j].metadata
                        /\ compass_map.roads[j].metadata[k] =
                               predict(k, (miles * 60) \div md["minutes"], miles, grade_or_zero(md["grade"]))

====
